---- MODULE Spec2Model ----
(***************************************************************************)
(* Model of proxy-harvest-rs: the URI decoders (src/src/parser.rs) and the *)
(* two synthesizers (src/src/config/outbound.rs, routing.rs), driven in    *)
(* the order of main (src/src/main.rs).                                    *)
(*                                                                         *)
(* Text is modelled as a sequence of characters.  A character is a string: *)
(* a printable ASCII character is the one-character string, a non-ASCII    *)
(* character is named by its code point ("U+0130").  A Vmess payload (the  *)
(* base64 text after "vmess://") is one opaque character "J<n>" whose      *)
(* decoding is given by the table VmessJson.                               *)
(***************************************************************************)
EXTENDS Integers, Sequences, FiniteSets, TLC

(***************************************************************************)
(* Bounds of the model.                                                    *)
(***************************************************************************)
\* the number of lines of an input text
MaxLines == 2
\* the largest positional index of a single decoder call
MaxIdx == 1
\* the number of pieces of a raw tag given to sanitize_tag
MaxTagParts == 2

(***************************************************************************)
(* Characters.                                                             *)
(***************************************************************************)
\* printable ASCII, code 32 .. 126: Ascii[i] has code i + 31 (the grave accent,
\* code 96, is written by its code point)
Ascii ==
  << " ", "!", "\"", "#", "$", "%", "&", "'", "(", ")", "*", "+", ",", "-", ".", "/",
     "0", "1", "2", "3", "4", "5", "6", "7", "8", "9", ":", ";", "<", "=", ">", "?",
     "@", "A", "B", "C", "D", "E", "F", "G", "H", "I", "J", "K", "L", "M", "N", "O",
     "P", "Q", "R", "S", "T", "U", "V", "W", "X", "Y", "Z", "[", "\\", "]", "^", "_",
     "U+0060", "a", "b", "c", "d", "e", "f", "g", "h", "i", "j", "k", "l", "m", "n", "o",
     "p", "q", "r", "s", "t", "u", "v", "w", "x", "y", "z", "{", "|", "}", "~" >>

AsciiChars == { Ascii[i] : i \in 1..95 }

CodeOf == [ c \in AsciiChars |-> (CHOOSE i \in 1..95 : Ascii[i] = c) + 31 ]


AsciiDigits == { Ascii[i] : i \in 17..26 }
AsciiUpper  == { Ascii[i] : i \in 34..59 }
AsciiLower  == { Ascii[i] : i \in 66..91 }

\* the character of a byte below 128; the control characters are one token
ByteChar(b) == IF b >= 32 /\ b <= 126 THEN Ascii[b - 31] ELSE "CTL"

\* the character of a code point above 127 (the ones the inputs produce)
CodePointChar(cp) ==
  IF cp = 304 THEN "U+0130"          \* LATIN CAPITAL LETTER I WITH DOT ABOVE
  ELSE IF cp = 775 THEN "U+0307"     \* COMBINING DOT ABOVE
  ELSE "U+other"

\* char::is_alphanumeric: the ASCII letters and digits, and U+0130 (Lu);
\* U+0307 (Mn) and the emoji U+1F30D (So) are not alphanumeric
is_alphanumeric(c) ==
  c \in AsciiDigits \cup AsciiUpper \cup AsciiLower \cup {"U+0130"}

\* char::to_lowercase: a sequence, since U+0130 lowers to "i" + U+0307
char_to_lowercase(c) ==
  IF c \in AsciiUpper THEN << Ascii[CodeOf[c] + 32 - 31] >>
  ELSE IF c = "U+0130" THEN << "i", "U+0307" >>
  ELSE << c >>

\* char::is_whitespace, for the characters of the model
is_whitespace(c) == c = " "

(***************************************************************************)
(* Strings (std::str).                                                     *)
(***************************************************************************)
RECURSIVE to_lowercase(_)
to_lowercase(s) ==
  IF s = << >> THEN << >> ELSE char_to_lowercase(Head(s)) \o to_lowercase(Tail(s))

starts_with(s, p) == Len(s) >= Len(p) /\ SubSeq(s, 1, Len(p)) = p

contains(s, p) ==
  \E i \in 1..(Len(s) - Len(p) + 1) : SubSeq(s, i, i + Len(p) - 1) = p

contains_char(s, c) == \E i \in 1..Len(s) : s[i] = c

\* str::find(char): the 1-based position of the first c, 0 when there is none
find(s, c) ==
  IF contains_char(s, c)
  THEN CHOOSE i \in 1..Len(s) : s[i] = c /\ \A j \in 1..(i - 1) : s[j] # c
  ELSE 0

Before(s, i) == SubSeq(s, 1, i - 1)
After(s, i) == SubSeq(s, i + 1, Len(s))

RECURSIVE split(_, _)
split(s, c) ==
  LET i == find(s, c)
  IN IF i = 0 THEN << s >> ELSE << Before(s, i) >> \o split(After(s, i), c)

RECURSIVE trim_start(_)
trim_start(s) ==
  IF s # << >> /\ is_whitespace(Head(s)) THEN trim_start(Tail(s)) ELSE s

RECURSIVE trim_end(_)
trim_end(s) ==
  IF s # << >> /\ is_whitespace(s[Len(s)]) THEN trim_end(SubSeq(s, 1, Len(s) - 1)) ELSE s

trim(s) == trim_end(trim_start(s))

RECURSIVE trim_start_matches(_, _)
trim_start_matches(s, p) ==
  IF starts_with(s, p) THEN trim_start_matches(SubSeq(s, Len(p) + 1, Len(s)), p) ELSE s

replace_char(s, a, b) == [ i \in 1..Len(s) |-> IF s[i] = a THEN b ELSE s[i] ]

RECURSIVE Join(_, _)
Join(ss, sep) ==
  IF ss = << >> THEN << >>
  ELSE IF Len(ss) = 1 THEN ss[1]
  ELSE ss[1] \o sep \o Join(Tail(ss), sep)

\* format!("{}", n) of an unsigned integer
RECURSIVE fmt_int(_)
fmt_int(n) ==
  IF n < 10 THEN << Ascii[n + 17] >> ELSE fmt_int(n \div 10) \o << Ascii[(n % 10) + 17] >>

\* Result values
Ok(v) == [ kind |-> "ok", val |-> v ]
Err(e) == [ kind |-> "err", err |-> e ]
Panic(e) == [ kind |-> "panic", err |-> e ]
is_ok(r) == r.kind = "ok"

\* Option values
None == << >>
Some(v) == << v >>

\* str::parse::<u16>: an optional '+', then one or more ASCII digits, at most 65535
RECURSIVE DigitsValue(_, _)
DigitsValue(s, acc) ==
  IF s = << >> THEN acc
  ELSE IF acc > 65535 THEN acc
  ELSE DigitsValue(Tail(s), acc * 10 + (CodeOf[Head(s)] - 48))

parse_u16(s) ==
  LET d == IF s # << >> /\ Head(s) = "+" THEN Tail(s) ELSE s
  IN IF d = << >> \/ \E i \in 1..Len(d) : d[i] \notin AsciiDigits
     THEN Err("invalid digit")
     ELSE IF DigitsValue(d, 0) > 65535 THEN Err("number too large")
     ELSE Ok(DigitsValue(d, 0))

(***************************************************************************)
(* urlencoding::decode: "%XX" becomes the byte XX, any other '%' stays;    *)
(* the bytes must then be UTF-8.                                           *)
(***************************************************************************)
HexDigits == AsciiDigits \cup {"a", "b", "c", "d", "e", "f", "A", "B", "C", "D", "E", "F"}

from_hex_digit(c) ==
  IF c \in AsciiDigits THEN CodeOf[c] - 48
  ELSE IF c \in AsciiUpper THEN CodeOf[c] - 55
  ELSE CodeOf[c] - 87

\* is there an escape "%XX" at position i of s
IsEscape(s, i) ==
  /\ i + 2 <= Len(s)
  /\ s[i] = "%"
  /\ s[i + 1] \in HexDigits
  /\ s[i + 2] \in HexDigits

EscapeByte(s, i) == from_hex_digit(s[i + 1]) * 16 + from_hex_digit(s[i + 2])

IsContinuation(s, i) == IsEscape(s, i) /\ EscapeByte(s, i) \in 128..191

\* the decoded character c in front of the decoded rest, if the rest decoded
push_decoded(c, rest) == IF is_ok(rest) THEN Ok(<< c >> \o rest.val) ELSE rest

RECURSIVE decode_from(_, _)
RECURSIVE decode_escape(_, _, _)

\* the character whose UTF-8 encoding starts with the escaped byte b at i
decode_escape(s, i, b) ==
  IF b < 128 THEN push_decoded(ByteChar(b), decode_from(s, i + 3))
  ELSE IF b >= 194 /\ b <= 223 /\ IsContinuation(s, i + 3)
  THEN push_decoded(CodePointChar((b - 192) * 64 + (EscapeByte(s, i + 3) - 128)),
                    decode_from(s, i + 6))
  ELSE IF b >= 224 /\ b <= 239 /\ IsContinuation(s, i + 3) /\ IsContinuation(s, i + 6)
  THEN push_decoded("U+other", decode_from(s, i + 9))
  ELSE IF b >= 240 /\ b <= 244 /\ IsContinuation(s, i + 3)
          /\ IsContinuation(s, i + 6) /\ IsContinuation(s, i + 9)
  THEN push_decoded("U+other", decode_from(s, i + 12))
  ELSE Err("FromUtf8Error")

decode_from(s, i) ==
  IF i > Len(s) THEN Ok(<< >>)
  ELSE IF IsEscape(s, i) THEN decode_escape(s, i, EscapeByte(s, i))
  ELSE push_decoded(s[i], decode_from(s, i + 1))

decode(s) == decode_from(s, 1)

\* decode(..).unwrap(): an Err is a panic of the thread
unwrap(r) == IF is_ok(r) THEN r ELSE Panic("called Result::unwrap() on an Err value")

(***************************************************************************)
(* String literals of the source, as character sequences.                  *)
(***************************************************************************)
\* the scheme prefixes
Prefix ==
  [ ss |-> << "s", "s", ":", "/", "/" >>,
    vless |-> << "v", "l", "e", "s", "s", ":", "/", "/" >>,
    vmess |-> << "v", "m", "e", "s", "s", ":", "/", "/" >>,
    trojan |-> << "t", "r", "o", "j", "a", "n", ":", "/", "/" >>,
    hysteria2 |-> << "h", "y", "s", "t", "e", "r", "i", "a", "2", ":", "/", "/" >> ]

\* the names of the query parameters
Key ==
  [ encryption |-> << "e", "n", "c", "r", "y", "p", "t", "i", "o", "n" >>,
    flow |-> << "f", "l", "o", "w" >>,
    type |-> << "t", "y", "p", "e" >>,
    security |-> << "s", "e", "c", "u", "r", "i", "t", "y" >>,
    sni |-> << "s", "n", "i" >>,
    fp |-> << "f", "p" >>,
    alpn |-> << "a", "l", "p", "n" >>,
    allowInsecure |-> << "a", "l", "l", "o", "w", "I", "n", "s", "e", "c", "u", "r", "e" >>,
    insecure |-> << "i", "n", "s", "e", "c", "u", "r", "e" >>,
    pbk |-> << "p", "b", "k" >>,
    sid |-> << "s", "i", "d" >>,
    spx |-> << "s", "p", "x" >>,
    path |-> << "p", "a", "t", "h" >>,
    host |-> << "h", "o", "s", "t" >>,
    serviceName |-> << "s", "e", "r", "v", "i", "c", "e", "N", "a", "m", "e" >>,
    authority |-> << "a", "u", "t", "h", "o", "r", "i", "t", "y" >>,
    headerType |-> << "h", "e", "a", "d", "e", "r", "T", "y", "p", "e" >>,
    obfs |-> << "o", "b", "f", "s" >>,
    obfs_password |-> << "o", "b", "f", "s", "-", "p", "a", "s", "s", "w", "o", "r", "d" >> ]

\* the other literals
Lit ==
  [ warp |-> << "w", "a", "r", "p" >>,
    warp_dash |-> << "w", "a", "r", "p", "-" >>,
    cloudflare |-> << "c", "l", "o", "u", "d", "f", "l", "a", "r", "e" >>,
    cdn |-> << "c", "d", "n" >>,
    ip104 |-> << "1", "0", "4", "." >>,
    ss |-> << "s", "s" >>,
    vless |-> << "v", "l", "e", "s", "s" >>,
    vmess |-> << "v", "m", "e", "s", "s" >>,
    trojan |-> << "t", "r", "o", "j", "a", "n" >>,
    hysteria2 |-> << "h", "y", "s", "t", "e", "r", "i", "a", "2" >>,
    none |-> << "n", "o", "n", "e" >>,
    tcp |-> << "t", "c", "p" >>,
    tls |-> << "t", "l", "s" >>,
    reality |-> << "r", "e", "a", "l", "i", "t", "y" >>,
    ws |-> << "w", "s" >>,
    grpc |-> << "g", "r", "p", "c" >>,
    chrome |-> << "c", "h", "r", "o", "m", "e" >>,
    true |-> << "t", "r", "u", "e" >>,
    one |-> << "1" >>,
    slash |-> << "/" >> ]

\* the tags of the standard outbounds and of the balancers
Tag ==
  [ direct |-> << "d", "i", "r", "e", "c", "t" >>,
    block |-> << "b", "l", "o", "c", "k" >>,
    claude_balance |-> << "c", "l", "a", "u", "d", "e", "-", "b", "a", "l", "a", "n", "c", "e" >>,
    warp_balance |-> << "w", "a", "r", "p", "-", "b", "a", "l", "a", "n", "c", "e" >>,
    proxy_balance |-> << "p", "r", "o", "x", "y", "-", "b", "a", "l", "a", "n", "c", "e" >> ]

(***************************************************************************)
(* parser.rs: sanitize_tag, check_is_warp, parse_query and the two shared  *)
(* settings helpers.                                                       *)
(***************************************************************************)
\* the filter of sanitize_tag
TagCharKept(c) ==
  is_alphanumeric(c) \/ c = "-" \/ c = "_" \/ c = " " \/ c = "@" \/ c = "|"

\* mutant: the "warp-" prefix is never prepended
sanitize_tag_no_prefix(tag, protocol, idx, is_warp) ==
  LET cleaned == trim(SelectSeq(tag, TagCharKept))
  IN IF cleaned = << >>
     THEN protocol \o << "-" >> \o fmt_int(idx)
     ELSE to_lowercase(replace_char(cleaned, " ", "-"))

sanitize_tag(tag, protocol, idx, is_warp) ==
  LET cleaned == trim(SelectSeq(tag, TagCharKept))
      base_tag == IF cleaned = << >>
                  THEN protocol \o << "-" >> \o fmt_int(idx)
                  ELSE to_lowercase(replace_char(cleaned, " ", "-"))
  IN IF is_warp /\ ~starts_with(base_tag, Lit.warp)
     THEN Lit.warp_dash \o base_tag
     ELSE base_tag

\* HashMap<String, String>: a function from the keys to the values
EmptyMap == << >>
map_insert(m, k, v) == [ x \in (DOMAIN m) \cup {k} |-> IF x = k THEN v ELSE m[x] ]
map_get(m, k) == IF k \in DOMAIN m THEN Some(m[k]) ELSE None
\* Option::unwrap_or
unwrap_or(o, d) == IF o = None THEN d ELSE o[1]
\* Option::or_else
or_else(o, p) == IF o = None THEN p ELSE o

RECURSIVE parse_query_pairs(_, _)
RECURSIVE insert_pair(_, _, _, _)

\* params.insert of the key and the decoded value, then the remaining pairs
insert_pair(pairs, params, key, decoded_value) ==
  IF ~is_ok(decoded_value) THEN decoded_value
  ELSE parse_query_pairs(Tail(pairs), map_insert(params, key, decoded_value.val))

parse_query_pairs(pairs, params) ==
  IF pairs = << >> THEN Ok(params)
  ELSE LET pair == Head(pairs)
           eq == find(pair, "=")
       IN IF eq = 0 THEN parse_query_pairs(Tail(pairs), params)
          ELSE insert_pair(pairs, params, Before(pair, eq), decode(After(pair, eq)))

parse_query(query) == parse_query_pairs(split(query, "&"), EmptyMap)

\* s.split(',').map(trim).filter(non-empty).collect()
RECURSIVE TrimAll(_)
TrimAll(ss) == IF ss = << >> THEN << >> ELSE << trim(Head(ss)) >> \o TrimAll(Tail(ss))

NonEmptyStr(x) == x # << >>

split_alpn(s) == SelectSeq(TrimAll(split(s, ",")), NonEmptyStr)

is_true_literal(s) == s = Lit.one \/ s = Lit.true

\* mutant: the Reality fields read whatever the security
parse_tls_settings_reality_always(params, security) ==
  [ server_name |-> unwrap_or(map_get(params, Key.sni), << >>),
    fingerprint |-> unwrap_or(map_get(params, Key.fp), Lit.chrome),
    alpn |-> IF map_get(params, Key.alpn) = None THEN None
             ELSE Some(split_alpn(params[Key.alpn])),
    allow_insecure |-> IF map_get(params, Key.allowInsecure) = None THEN TRUE
                       ELSE is_true_literal(params[Key.allowInsecure]),
    public_key |-> map_get(params, Key.pbk),
    short_id |-> map_get(params, Key.sid),
    spider_x |-> or_else(map_get(params, Key.spx), map_get(params, Key.path)) ]

parse_tls_settings(params, security) ==
  [ server_name |-> unwrap_or(map_get(params, Key.sni), << >>),
    fingerprint |-> unwrap_or(map_get(params, Key.fp), Lit.chrome),
    alpn |-> IF map_get(params, Key.alpn) = None THEN None
             ELSE Some(split_alpn(params[Key.alpn])),
    allow_insecure |-> IF map_get(params, Key.allowInsecure) = None THEN TRUE
                       ELSE is_true_literal(params[Key.allowInsecure]),
    public_key |-> IF security = Lit.reality THEN map_get(params, Key.pbk) ELSE None,
    short_id |-> IF security = Lit.reality THEN map_get(params, Key.sid) ELSE None,
    spider_x |-> IF security = Lit.reality
                 THEN or_else(map_get(params, Key.spx), map_get(params, Key.path))
                 ELSE None ]

WebSocket(path, host) == [ type |-> "ws", path |-> path, host |-> host ]
Grpc(service_name, authority) ==
  [ type |-> "grpc", service_name |-> service_name, authority |-> authority ]
Tcp(header_type) == [ type |-> "tcp", header_type |-> header_type ]

\* mutant: the transport-kind matched without regard to case
parse_network_settings_any_case(params, network) ==
  IF to_lowercase(network) = Lit.ws
  THEN Some(WebSocket(unwrap_or(map_get(params, Key.path), Lit.slash),
                      unwrap_or(map_get(params, Key.host), << >>)))
  ELSE IF to_lowercase(network) = Lit.grpc
  THEN Some(Grpc(unwrap_or(map_get(params, Key.serviceName), << >>),
                 unwrap_or(map_get(params, Key.authority), << >>)))
  ELSE IF to_lowercase(network) = Lit.tcp
  THEN Some(Tcp(unwrap_or(map_get(params, Key.headerType), Lit.none)))
  ELSE None

parse_network_settings(params, network) ==
  IF network = Lit.ws
  THEN Some(WebSocket(unwrap_or(map_get(params, Key.path), Lit.slash),
                      unwrap_or(map_get(params, Key.host), << >>)))
  ELSE IF network = Lit.grpc
  THEN Some(Grpc(unwrap_or(map_get(params, Key.serviceName), << >>),
                 unwrap_or(map_get(params, Key.authority), << >>)))
  ELSE IF network = Lit.tcp
  THEN Some(Tcp(unwrap_or(map_get(params, Key.headerType), Lit.none)))
  ELSE None

check_is_warp(tag, params) ==
  \/ contains(to_lowercase(tag), Lit.warp)
  \/ /\ map_get(params, Key.path) # None
     /\ \/ contains(to_lowercase(params[Key.path]), Lit.warp)
        \/ contains(to_lowercase(params[Key.path]), Lit.cloudflare)
  \/ /\ map_get(params, Key.host) # None
     /\ contains(to_lowercase(params[Key.host]), Lit.warp)

(***************************************************************************)
(* The base64 crate: BASE64_STANDARD (padding required, canonical) and     *)
(* BASE64_URL_SAFE_NO_PAD (padding refused).  Both refuse a symbol outside *)
(* their alphabet, a length of 1 modulo 4 and non-zero trailing bits.      *)
(***************************************************************************)
B64Common ==
  << "A", "B", "C", "D", "E", "F", "G", "H", "I", "J", "K", "L", "M", "N", "O", "P",
     "Q", "R", "S", "T", "U", "V", "W", "X", "Y", "Z", "a", "b", "c", "d", "e", "f",
     "g", "h", "i", "j", "k", "l", "m", "n", "o", "p", "q", "r", "s", "t", "u", "v",
     "w", "x", "y", "z", "0", "1", "2", "3", "4", "5", "6", "7", "8", "9" >>

STANDARD_ALPHABET == B64Common \o << "+", "/" >>
URL_SAFE_ALPHABET == B64Common \o << "-", "_" >>

SymbolsOf(alphabet) == { alphabet[i] : i \in 1..64 }
SextetOf(alphabet) ==
  [ c \in SymbolsOf(alphabet) |-> (CHOOSE i \in 1..64 : alphabet[i] = c) - 1 ]

StdSextet == SextetOf(STANDARD_ALPHABET)
UrlSextet == SextetOf(URL_SAFE_ALPHABET)

RECURSIVE StripPadding(_)
StripPadding(s) ==
  IF s # << >> /\ s[Len(s)] = "=" THEN StripPadding(SubSeq(s, 1, Len(s) - 1)) ELSE s

\* the bytes of the sextets v[i], v[i+1], ... (a last group of 2 or 3 sextets
\* gives 1 or 2 bytes)
RECURSIVE SextetBytes(_, _)
SextetBytes(v, i) ==
  LET left == Len(v) - i + 1
  IN IF left <= 0 THEN << >>
     ELSE IF left = 2 THEN << v[i] * 4 + (v[i + 1] \div 16) >>
     ELSE IF left = 3 THEN << v[i] * 4 + (v[i + 1] \div 16),
                              (v[i + 1] % 16) * 16 + (v[i + 2] \div 4) >>
     ELSE << v[i] * 4 + (v[i + 1] \div 16),
             (v[i + 1] % 16) * 16 + (v[i + 2] \div 4),
             (v[i + 2] % 4) * 64 + v[i + 3] >> \o SextetBytes(v, i + 4)

base64_decode(input, sextet, padded) ==
  LET data == StripPadding(input)
      npad == Len(input) - Len(data)
      n == Len(data)
      v == [ i \in 1..n |-> sextet[data[i]] ]
  IN IF \E i \in 1..n : data[i] \notin DOMAIN sextet THEN Err("InvalidByte")
     ELSE IF n % 4 = 1 THEN Err("InvalidLength")
     ELSE IF padded /\ npad # (4 - (n % 4)) % 4 THEN Err("InvalidPadding")
     ELSE IF ~padded /\ npad # 0 THEN Err("InvalidPadding")
     ELSE IF n % 4 = 2 /\ v[n] % 16 # 0 THEN Err("InvalidLastSymbol")
     ELSE IF n % 4 = 3 /\ v[n] % 4 # 0 THEN Err("InvalidLastSymbol")
     ELSE Ok(SextetBytes(v, 1))

BASE64_STANDARD_decode(input) == base64_decode(input, StdSextet, TRUE)
BASE64_URL_SAFE_NO_PAD_decode(input) == base64_decode(input, UrlSextet, FALSE)

IsContinuationByte(b, i) == i <= Len(b) /\ b[i] >= 128 /\ b[i] <= 191

\* String::from_utf8
RECURSIVE from_utf8_at(_, _)
from_utf8_at(b, i) ==
  IF i > Len(b) THEN Ok(<< >>)
  ELSE IF b[i] < 128
  THEN LET r == from_utf8_at(b, i + 1)
       IN IF is_ok(r) THEN Ok(<< ByteChar(b[i]) >> \o r.val) ELSE r
  ELSE IF b[i] >= 194 /\ b[i] <= 223 /\ IsContinuationByte(b, i + 1)
  THEN LET r == from_utf8_at(b, i + 2)
       IN IF is_ok(r)
          THEN Ok(<< CodePointChar((b[i] - 192) * 64 + (b[i + 1] - 128)) >> \o r.val)
          ELSE r
  ELSE IF b[i] >= 224 /\ b[i] <= 239 /\ IsContinuationByte(b, i + 1)
          /\ IsContinuationByte(b, i + 2)
  THEN LET r == from_utf8_at(b, i + 3)
       IN IF is_ok(r) THEN Ok(<< "U+other" >> \o r.val) ELSE r
  ELSE IF b[i] >= 240 /\ b[i] <= 244 /\ IsContinuationByte(b, i + 1)
          /\ IsContinuationByte(b, i + 2) /\ IsContinuationByte(b, i + 3)
  THEN LET r == from_utf8_at(b, i + 4)
       IN IF is_ok(r) THEN Ok(<< "U+other" >> \o r.val) ELSE r
  ELSE Err("FromUtf8Error")

from_utf8(b) == from_utf8_at(b, 1)

(***************************************************************************)
(* Descriptors (enum ServerConfig) and the TLS block.                      *)
(***************************************************************************)
Shadowsocks(tag, address, port, method, password) ==
  [ protocol |-> "shadowsocks", tag |-> tag, address |-> address, port |-> port,
    method |-> method, password |-> password ]

Vless(tag, address, port, id, encryption, flow, network, security, tls_settings, network_settings) ==
  [ protocol |-> "vless", tag |-> tag, address |-> address, port |-> port, id |-> id,
    encryption |-> encryption, flow |-> flow, network |-> network,
    security |-> security, tls_settings |-> tls_settings,
    network_settings |-> network_settings ]

Vmess(tag, address, port, id, alter_id, security, network, network_settings, tls_settings, allow_insecure) ==
  [ protocol |-> "vmess", tag |-> tag, address |-> address, port |-> port, id |-> id,
    alter_id |-> alter_id, security |-> security, network |-> network,
    network_settings |-> network_settings, tls_settings |-> tls_settings,
    allow_insecure |-> allow_insecure ]

Trojan(tag, address, port, password, network, security, tls_settings, network_settings, allow_insecure) ==
  [ protocol |-> "trojan", tag |-> tag, address |-> address, port |-> port,
    password |-> password, network |-> network, security |-> security,
    tls_settings |-> tls_settings, network_settings |-> network_settings,
    allow_insecure |-> allow_insecure ]

Hysteria2(tag, address, port, password, server_name, allow_insecure, obfs, obfs_password) ==
  [ protocol |-> "hysteria2", tag |-> tag, address |-> address, port |-> port,
    password |-> password, server_name |-> server_name,
    allow_insecure |-> allow_insecure, obfs |-> obfs, obfs_password |-> obfs_password ]

TlsSettings(server_name, fingerprint, alpn, allow_insecure) ==
  [ server_name |-> server_name, fingerprint |-> fingerprint, alpn |-> alpn,
    allow_insecure |-> allow_insecure, public_key |-> None, short_id |-> None,
    spider_x |-> None ]

\* ServerConfig::is_warp
is_warp(server) == contains(to_lowercase(server.tag), Lit.warp)

\* mutant: the address test applied to every variant
is_cloudflare_any_variant(server) ==
  LET addr == to_lowercase(server.address)
  IN starts_with(addr, Lit.ip104) \/ contains(addr, Lit.cloudflare) \/ contains(addr, Lit.cdn)

\* ServerConfig::is_cloudflare
is_cloudflare(server) ==
  /\ server.protocol \in {"vless", "vmess", "trojan", "hysteria2"}
  /\ LET addr == to_lowercase(server.address)
     IN starts_with(addr, Lit.ip104) \/ contains(addr, Lit.cloudflare) \/ contains(addr, Lit.cdn)

\* a decoder's result: the descriptor, and the decoder's own warp determination
Decoded(server, warp) == [ kind |-> "ok", val |-> server, warp |-> warp ]

(***************************************************************************)
(* The regular expressions of parse_vless, parse_trojan and                *)
(* parse_hysteria2.  Every group is delimited by a character it excludes,  *)
(* so a match, when there is one, is unique.                               *)
(***************************************************************************)
\* \d of the regex crate is Unicode-aware: U+0663 is ARABIC-INDIC DIGIT THREE
RegexDigits == AsciiDigits \cup {"U+0663"}

RECURSIVE DigitRun(_, _)
DigitRun(s, i) ==
  IF i <= Len(s) /\ s[i] \in RegexDigits THEN DigitRun(s, i + 1) ELSE i - 1

Captures(g1, g2, g3, g4, g5) == [ g1 |-> g1, g2 |-> g2, g3 |-> g3, g4 |-> g4, g5 |-> g5 ]

\* ^<prefix>([^@]+)@([^:]+):(\d+)(?:#(.*))?$  (four groups: get(5) is None)
re_simple_captures(url, prefix) ==
  IF ~starts_with(url, prefix) THEN None
  ELSE LET r0 == SubSeq(url, Len(prefix) + 1, Len(url))
           a == find(r0, "@")
           r1 == After(r0, a)
           c == find(r1, ":")
           r2 == After(r1, c)
           k == DigitRun(r2, 1)
       IN IF a <= 1 \/ c <= 1 \/ k = 0 THEN None
          ELSE IF k = Len(r2)
          THEN Some(Captures(Before(r0, a), Before(r1, c), r2, None, None))
          ELSE IF r2[k + 1] = "#"
          THEN Some(Captures(Before(r0, a), Before(r1, c), Before(r2, k + 1),
                             Some(After(r2, k + 1)), None))
          ELSE None

\* mutant: the query made optional, as in parse_hysteria2
re_captures_query_optional(url, prefix) ==
  IF ~starts_with(url, prefix) THEN None
  ELSE LET r0 == SubSeq(url, Len(prefix) + 1, Len(url))
           a == find(r0, "@")
           r1 == After(r0, a)
           c == find(r1, ":")
           r2 == After(r1, c)
           k == DigitRun(r2, 1)
           r3 == After(r2, k + 1)
           h == find(r3, "#")
       IN IF a <= 1 \/ c <= 1 \/ k = 0 THEN None
          ELSE IF k + 1 > Len(r2) \/ r2[k + 1] # "?"
          THEN LET simple == re_simple_captures(url, prefix)
               IN IF simple = None THEN None
                  ELSE Some(Captures(simple[1].g1, simple[1].g2, simple[1].g3,
                                     Some(<< >>), simple[1].g4))
          ELSE IF h = 1 \/ r3 = << >> THEN None
          ELSE IF h = 0
          THEN Some(Captures(Before(r0, a), Before(r1, c), Before(r2, k + 1), Some(r3), None))
          ELSE Some(Captures(Before(r0, a), Before(r1, c), Before(r2, k + 1),
                             Some(Before(r3, h)), Some(After(r3, h))))

\* ^<prefix>([^@]+)@([^:]+):(\d+)\?([^#]+)(?:#(.*))?$
re_captures(url, prefix) ==
  IF ~starts_with(url, prefix) THEN None
  ELSE LET r0 == SubSeq(url, Len(prefix) + 1, Len(url))
           a == find(r0, "@")
           r1 == After(r0, a)
           c == find(r1, ":")
           r2 == After(r1, c)
           k == DigitRun(r2, 1)
           r3 == After(r2, k + 1)
           h == find(r3, "#")
       IN IF a <= 1 \/ c <= 1 \/ k = 0 THEN None
          ELSE IF k + 1 > Len(r2) \/ r2[k + 1] # "?" THEN None
          ELSE IF h = 1 \/ r3 = << >> THEN None
          ELSE IF h = 0
          THEN Some(Captures(Before(r0, a), Before(r1, c), Before(r2, k + 1), Some(r3), None))
          ELSE Some(Captures(Before(r0, a), Before(r1, c), Before(r2, k + 1),
                             Some(Before(r3, h)), Some(After(r3, h))))

(***************************************************************************)
(* parse_shadowsocks                                                       *)
(***************************************************************************)
\* mutant: credentials with a second ':' are refused
ss_method_password_one_colon(decoded_str, tag, host, port, idx) ==
  IF ~is_ok(decoded_str) THEN decoded_str
  ELSE IF Len(split(decoded_str.val, ":")) # 2
  THEN Err("Invalid shadowsocks credentials format")
  ELSE Decoded(Shadowsocks(sanitize_tag(tag, Lit.ss, idx, FALSE), host, port,
                           split(decoded_str.val, ":")[1], split(decoded_str.val, ":")[2]),
               FALSE)

\* method and password out of the decoded credentials, and the descriptor
ss_method_password(decoded_str, tag, host, port, idx) ==
  IF ~is_ok(decoded_str) THEN decoded_str
  ELSE IF ~contains_char(decoded_str.val, ":")
  THEN Err("Invalid shadowsocks credentials format: missing colon")
  ELSE LET colon == find(decoded_str.val, ":")
       IN Decoded(Shadowsocks(sanitize_tag(tag, Lit.ss, idx, FALSE), host, port,
                              Before(decoded_str.val, colon),
                              After(decoded_str.val, colon)),
                  FALSE)

\* the steps that follow the base64 decoding of the credentials into decoded
ss_decoded(decoded, tag, host, port, idx) ==
  IF ~is_ok(decoded) THEN Err("Failed to decode base64")
  ELSE ss_method_password(from_utf8(decoded.val), tag, host, port, idx)

\* the credentials step, once host, port and tag are known
ss_credentials(encoded_part, tag, host, port, idx) ==
  ss_decoded(IF contains_char(encoded_part, "-") \/ contains_char(encoded_part, "_")
             THEN BASE64_URL_SAFE_NO_PAD_decode(encoded_part)
             ELSE LET padded == IF Len(encoded_part) % 4 = 2
                                THEN encoded_part \o << "=", "=" >>
                                ELSE IF Len(encoded_part) % 4 = 3
                                THEN encoded_part \o << "=" >>
                                ELSE encoded_part
                  IN BASE64_STANDARD_decode(padded),
             tag, host, port, idx)

\* the steps that follow the parsing of the port and the decoding of the tag
ss_server(encoded_part, host, port, tag, idx) ==
  IF ~is_ok(port) THEN Err("Invalid port")
  ELSE IF ~is_ok(tag) THEN tag
  ELSE ss_credentials(encoded_part, tag.val, host, port.val, idx)

\* host and port out of the parts of host_port_part, and the tag
ss_host_port(encoded_part, tag_part, parts, idx) ==
  IF Len(parts) # 2 THEN Err("Invalid shadowsocks URL format: invalid host:port")
  ELSE ss_server(encoded_part, parts[1], parse_u16(parts[2]),
                 IF tag_part # << >> THEN unwrap(decode(tag_part))
                 ELSE Ok(Lit.ss \o << "-" >> \o fmt_int(idx)),
                 idx)

\* rest_part split into host:port and the optional query and tag
ss_rest_part(encoded_part, rest_part, idx) ==
  LET hash_pos == find(rest_part, "#")
      tag_part == IF hash_pos # 0 THEN After(rest_part, hash_pos) ELSE << >>
      before_hash == IF hash_pos # 0 THEN Before(rest_part, hash_pos) ELSE rest_part
      question_pos == find(before_hash, "?")
      host_port_part == IF question_pos # 0 THEN Before(before_hash, question_pos)
                        ELSE before_hash
  IN ss_host_port(encoded_part, tag_part, split(host_port_part, ":"), idx)

\* url_part split at its first '@'
ss_url_part(url_part, idx) ==
  LET at_pos == find(url_part, "@")
  IN IF at_pos = 0 THEN Err("Invalid shadowsocks URL format: missing @")
     ELSE ss_rest_part(Before(url_part, at_pos), After(url_part, at_pos), idx)

parse_shadowsocks(url, idx) ==
  IF ~starts_with(url, Prefix.ss) THEN Err("Invalid shadowsocks URL format")
  ELSE ss_url_part(trim_start_matches(url, Prefix.ss), idx)

(***************************************************************************)
(* parse_vless                                                             *)
(***************************************************************************)
\* mutant: a TLS block for security "tls" only, as in parse_trojan
vless_server_tls_only(caps, port, tag, params, idx) ==
  IF ~is_ok(port) THEN Err("ParseIntError")
  ELSE IF ~is_ok(tag) THEN tag
  ELSE IF ~is_ok(params) THEN params
  ELSE LET encryption == unwrap_or(map_get(params.val, Key.encryption), Lit.none)
           flow == unwrap_or(map_get(params.val, Key.flow), << >>)
           network == unwrap_or(map_get(params.val, Key.type), Lit.tcp)
           security == unwrap_or(map_get(params.val, Key.security), Lit.none)
           tls_settings == IF security = Lit.tls
                           THEN Some(parse_tls_settings(params.val, security))
                           ELSE None
           network_settings == parse_network_settings(params.val, network)
           warp == check_is_warp(tag.val, params.val)
       IN Decoded(Vless(sanitize_tag(tag.val, Lit.vless, idx, warp), caps.g2,
                        port.val, caps.g1, encryption, flow, network, security,
                        tls_settings, network_settings),
                  warp)

\* the descriptor of a matched line, once its port, tag and query are decoded
vless_server(caps, port, tag, params, idx) ==
  IF ~is_ok(port) THEN Err("ParseIntError")
  ELSE IF ~is_ok(tag) THEN tag
  ELSE IF ~is_ok(params) THEN params
  ELSE LET encryption == unwrap_or(map_get(params.val, Key.encryption), Lit.none)
           flow == unwrap_or(map_get(params.val, Key.flow), << >>)
           network == unwrap_or(map_get(params.val, Key.type), Lit.tcp)
           security == unwrap_or(map_get(params.val, Key.security), Lit.none)
           tls_settings == IF security = Lit.tls \/ security = Lit.reality
                           THEN Some(parse_tls_settings(params.val, security))
                           ELSE None
           network_settings == parse_network_settings(params.val, network)
           warp == check_is_warp(tag.val, params.val)
       IN Decoded(Vless(sanitize_tag(tag.val, Lit.vless, idx, warp), caps.g2,
                        port.val, caps.g1, encryption, flow, network, security,
                        tls_settings, network_settings),
                  warp)

\* the steps that follow the match of the expression
vless_captures(caps, idx) ==
  IF caps = None THEN Err("Invalid vless URL format")
  ELSE vless_server(caps[1], parse_u16(caps[1].g3),
                    IF caps[1].g5 # None THEN unwrap(decode(caps[1].g5[1]))
                    ELSE Ok(Lit.vless \o << "-" >> \o fmt_int(idx)),
                    parse_query(caps[1].g4[1]), idx)

parse_vless(url, idx) == vless_captures(re_captures(url, Prefix.vless), idx)

(***************************************************************************)
(* parse_trojan                                                            *)
(***************************************************************************)
\* the descriptor of a matched line, once its port, tag, password and query
\* are decoded
trojan_server(caps, port, tag, password, params, idx) ==
  IF ~is_ok(port) THEN Err("ParseIntError")
  ELSE IF ~is_ok(tag) THEN tag
  ELSE IF ~is_ok(password) THEN password
  ELSE IF ~is_ok(params) THEN params
  ELSE LET network == unwrap_or(map_get(params.val, Key.type), Lit.tcp)
           security == unwrap_or(map_get(params.val, Key.security), Lit.tls)
           insecure == or_else(map_get(params.val, Key.insecure),
                               map_get(params.val, Key.allowInsecure))
           allow_insecure == IF insecure = None THEN FALSE
                             ELSE is_true_literal(insecure[1])
           tls_settings ==
             IF security = Lit.tls
             THEN Some(TlsSettings(
                    unwrap_or(map_get(params.val, Key.sni), << >>),
                    unwrap_or(map_get(params.val, Key.fp), Lit.chrome),
                    IF map_get(params.val, Key.alpn) = None THEN None
                    ELSE Some(split_alpn(params.val[Key.alpn])),
                    allow_insecure))
             ELSE None
           network_settings == parse_network_settings(params.val, network)
       IN Decoded(Trojan(sanitize_tag(tag.val, Lit.trojan, idx, FALSE), caps.g2,
                         port.val, password.val, network, security, tls_settings,
                         network_settings, allow_insecure),
                  FALSE)

\* the steps that follow the match of the expression
trojan_captures(caps, idx) ==
  IF caps = None THEN Err("Invalid trojan URL format")
  ELSE trojan_server(caps[1], parse_u16(caps[1].g3),
                     IF caps[1].g5 # None THEN unwrap(decode(caps[1].g5[1]))
                     ELSE Ok(Lit.trojan \o << "-" >> \o fmt_int(idx)),
                     decode(caps[1].g1), parse_query(caps[1].g4[1]), idx)

parse_trojan(url, idx) == trojan_captures(re_captures(url, Prefix.trojan), idx)

(***************************************************************************)
(* parse_hysteria2                                                         *)
(***************************************************************************)
\* the descriptor of a matched line, once its port, tag, password and query
\* are decoded
hysteria2_server(caps, port, tag, password, params, idx) ==
  IF ~is_ok(port) THEN Err("ParseIntError")
  ELSE IF ~is_ok(tag) THEN tag
  ELSE IF ~is_ok(password) THEN password
  ELSE IF ~is_ok(params) THEN params
  ELSE LET has_query == caps.g4 # None
           insecure == or_else(map_get(params.val, Key.insecure),
                               map_get(params.val, Key.allowInsecure))
           server_name == IF has_query
                          THEN unwrap_or(map_get(params.val, Key.sni), << >>)
                          ELSE << >>
           allow_insecure == IF has_query /\ insecure # None
                             THEN is_true_literal(insecure[1])
                             ELSE FALSE
           obfs == IF has_query THEN map_get(params.val, Key.obfs) ELSE None
           obfs_password == IF has_query THEN map_get(params.val, Key.obfs_password)
                            ELSE None
       IN Decoded(Hysteria2(sanitize_tag(tag.val, Lit.hysteria2, idx, FALSE),
                            caps.g2, port.val, password.val, server_name,
                            allow_insecure, obfs, obfs_password),
                  FALSE)

\* the steps that follow the match: caps is the match of the full expression
\* or else of the simple one
hysteria2_captures(caps, idx) ==
  IF caps = None THEN Err("Invalid hysteria2 URL format")
  ELSE hysteria2_server(caps[1], parse_u16(caps[1].g3),
                        IF caps[1].g5 # None THEN unwrap(decode(caps[1].g5[1]))
                        ELSE IF caps[1].g4 # None THEN unwrap(decode(caps[1].g4[1]))
                        ELSE Ok(Lit.hysteria2 \o << "-" >> \o fmt_int(idx)),
                        decode(caps[1].g1),
                        IF caps[1].g4 # None THEN parse_query(caps[1].g4[1])
                        ELSE Ok(EmptyMap),
                        idx)

parse_hysteria2(url, idx) ==
  hysteria2_captures(or_else(re_captures(url, Prefix.hysteria2),
                             re_simple_captures(url, Prefix.hysteria2)),
                     idx)

(***************************************************************************)
(* parse_vmess.  The base64 text of a payload is one character "J<n>";     *)
(* VmessJson gives what base64 decoding, String::from_utf8 and             *)
(* serde_json::from_str make of it: a decode error, a text that is not a   *)
(* JSON record, or the record.                                             *)
(***************************************************************************)
JStr(v) == [ t |-> "str", v |-> v ]
JNum(n) == [ t |-> "num", n |-> n ]

VmessJson ==
  [ J1 |->
       [ ps |-> JStr(<< "v" >>),
         add |-> JStr(<< "h" >>),
         port |-> JStr(<< "4", "4", "3" >>),
         id |-> JStr(<< "u" >>),
         aid |-> JStr(<< "0" >>),
         scy |-> JStr(<< "A", "u", "t", "o" >>),
         net |-> JStr(<< "w", "s" >>),
         tls |-> JStr(<< "t", "l", "s" >>),
         sni |-> JStr(<< "s" >>),
         path |-> JStr(<< "/", "p" >>),
         host |-> JStr(<< "w" >>) ],
    J2 |->
       [ add |-> JStr(<< "h" >>),
         port |-> JStr(<< "4", "4", "3" >>),
         id |-> JStr(<< "u" >>),
         aid |-> JStr(<< "0" >>),
         scy |-> JStr(<< "A", "u", "t", "o" >>),
         net |-> JStr(<< "w", "s" >>) ],
    J3 |->
       [ ps |-> JStr(<< >>),
         add |-> JStr(<< "h" >>),
         port |-> JStr(<< "4", "4", "3" >>),
         id |-> JStr(<< "u" >>),
         aid |-> JStr(<< "0" >>),
         scy |-> JStr(<< "A", "u", "t", "o" >>),
         net |-> JStr(<< "t", "c", "p" >>),
         tls |-> JStr(<< "t", "l", "s" >>) ],
    J4 |->
       [ ps |-> JStr(<< "v" >>),
         add |-> JStr(<< "h" >>),
         port |-> JNum(443),
         id |-> JStr(<< "u" >>),
         aid |-> JStr(<< "0" >>),
         scy |-> JStr(<< "A", "u", "t", "o" >>),
         net |-> JStr(<< "w", "s" >>) ],
    J5 |->
       [ ps |-> JStr(<< "%", "F", "F" >>),
         add |-> JStr(<< "h" >>),
         port |-> JStr(<< "4", "4", "3" >>),
         id |-> JStr(<< "u" >>),
         aid |-> JStr(<< "0" >>),
         scy |-> JStr(<< "A", "u", "t", "o" >>),
         net |-> JStr(<< "w", "s" >>) ],
    J6 |->
       [ ps |-> JStr(<< "M", "y", " ", "W", "a", "r", "p" >>),
         add |-> JStr(<< "c", "d", "n", ".", "x" >>),
         port |-> JStr(<< "4", "4", "3" >>),
         id |-> JStr(<< "u" >>),
         aid |-> JStr(<< "0" >>),
         scy |-> JStr(<< "A", "u", "t", "o" >>),
         net |-> JStr(<< "g", "r", "p", "c" >>) ],
    J7 |->
       [ ps |-> JStr(<< "v" >>),
         add |-> JStr(<< "h" >>),
         port |-> JStr(<< "4", "4", "3" >>),
         id |-> JStr(<< "u" >>),
         aid |-> JStr(<< "x" >>),
         scy |-> JStr(<< "A", "u", "t", "o" >>),
         net |-> JStr(<< "w", "s" >>) ],
    J9 |->
       [ ps |-> JStr(<< "v" >>),
         add |-> JStr(<< "h" >>),
         port |-> JStr(<< "4", "4", "3" >>),
         id |-> JStr(<< "u" >>),
         aid |-> JStr(<< "0" >>),
         scy |-> JStr(<< "A", "u", "t", "o" >>),
         net |-> JStr(<< "t", "c", "p" >>),
         tls |-> JStr(<< "t", "l", "s" >>),
         insecure |-> JStr(<< "1" >>) ],
    J10 |->
       [ ps |-> JStr(<< "v" >>),
         add |-> JStr(<< "h" >>),
         port |-> JStr(<< "4", "4", "3" >>),
         id |-> JStr(<< "u" >>),
         aid |-> JStr(<< "0" >>),
         scy |-> JStr(<< "A", "u", "t", "o" >>),
         net |-> JStr(<< "t", "c", "p" >>),
         tls |-> JStr(<< "n", "o", "n", "e" >>),
         sni |-> JStr(<< "s" >>),
         insecure |-> JStr(<< "t", "r", "u", "e" >>) ],
    J11 |->
       [ ps |-> JStr(<< "v" >>),
         add |-> JStr(<< "h" >>),
         port |-> JStr(<< "4", "4", "3" >>),
         id |-> JStr(<< "u" >>),
         aid |-> JStr(<< "0" >>),
         scy |-> JStr(<< "A", "u", "t", "o" >>),
         net |-> JStr(<< "t", "c", "p" >>),
         tls |-> JStr(<< "t", "l", "s" >>),
         path |-> JStr(<< "p" >>),
         pbk |-> JStr(<< "k" >>),
         sid |-> JStr(<< "s" >>),
         spx |-> JStr(<< "x" >>) ],
    J12 |->
       [ ps |-> JStr(<< "v" >>),
         add |-> JStr(<< "h" >>),
         port |-> JStr(<< "4", "4", "3" >>),
         id |-> JStr(<< "u" >>),
         aid |-> JStr(<< "0" >>),
         scy |-> JStr(<< "A", "u", "t", "o" >>),
         net |-> JStr(<< "W", "S" >>) ],
    J13 |->
       [ ps |-> JStr(<< "v" >>),
         add |-> JStr(<< "h" >>),
         port |-> JStr(<< "4", "4", "3" >>),
         id |-> JStr(<< "u" >>),
         aid |-> JStr(<< "0" >>),
         scy |-> JStr(<< "A", "u", "t", "o" >>),
         net |-> JStr(<< "k", "c", "p" >>),
         path |-> JStr(<< "p" >>),
         type |-> JStr(<< "h", "t", "t", "p" >>) ],
    J14 |->
       [ ps |-> JStr(<< "v" >>),
         add |-> JStr(<< "h" >>),
         port |-> JStr(<< "4", "4", "3" >>),
         id |-> JStr(<< "u" >>),
         aid |-> JStr(<< "0" >>),
         scy |-> JStr(<< "A", "u", "t", "o" >>),
         net |-> JStr(<< "t", "c", "p" >>),
         type |-> JStr(<< "h", "t", "t", "p" >>),
         tls |-> JStr(<< "t", "l", "s" >>),
         sni |-> JStr(<< "s" >>) ],
    J15 |->
       [ ps |-> JStr(<< "v" >>),
         add |-> JStr(<< "h" >>),
         port |-> JStr(<< "4", "4", "3" >>),
         id |-> JStr(<< "u" >>),
         aid |-> JStr(<< "0" >>),
         scy |-> JStr(<< "A", "u", "t", "o" >>),
         net |-> JStr(<< "g", "r", "p", "c" >>),
         tls |-> JStr(<< "t", "l", "s" >>) ] ]

VmessBlobs == { "J0", "J8" } \cup DOMAIN VmessJson

\* the derive(Deserialize) of VmessConfig: seven String fields are required,
\* the eight Option<String> fields may be missing; unknown keys are ignored
VmessRequired == { "ps", "add", "port", "id", "aid", "scy", "net" }
VmessOptional == { "type", "host", "path", "tls", "sni", "alpn", "fp", "insecure" }

json_opt(o, k) == IF k \in DOMAIN o THEN Some(o[k].v) ELSE None

VmessConfig_from(o) ==
  IF \E k \in VmessRequired : k \notin DOMAIN o THEN Err("missing field")
  ELSE IF \E k \in (VmessRequired \cup VmessOptional) \cap DOMAIN o : o[k].t # "str"
  THEN Err("invalid type")
  ELSE Ok([ ps |-> o.ps.v, add |-> o.add.v, port |-> o.port.v, id |-> o.id.v,
            aid |-> o.aid.v, scy |-> o.scy.v, net |-> o.net.v,
            type_field |-> json_opt(o, "type"), host |-> json_opt(o, "host"),
            path |-> json_opt(o, "path"), tls |-> json_opt(o, "tls"),
            sni |-> json_opt(o, "sni"), alpn |-> json_opt(o, "alpn"),
            fp |-> json_opt(o, "fp"), insecure |-> json_opt(o, "insecure") ])

\* base64 decoding, from_utf8 and serde_json::from_str of the payload text;
\* a text written out in characters is never the base64 of a JSON record
vmess_payload(base64_data) ==
  IF Len(base64_data) = 1 /\ base64_data[1] \in DOMAIN VmessJson
  THEN VmessConfig_from(VmessJson[base64_data[1]])
  ELSE IF Len(base64_data) = 1 /\ base64_data[1] = "J8"
  THEN Err("expected value")
  ELSE Err("Failed to decode vmess base64")

vmess_network_settings(config, network) ==
  IF network = Lit.ws
  THEN Some(WebSocket(unwrap_or(config.path, Lit.slash), unwrap_or(config.host, << >>)))
  ELSE IF network = Lit.grpc
  THEN Some(Grpc(unwrap_or(config.path, << >>), unwrap_or(config.host, << >>)))
  ELSE IF network = Lit.tcp
  THEN Some(Tcp(unwrap_or(config.type_field, Lit.none)))
  ELSE None

\* the descriptor made of the payload record, once its tag, port and alterId
\* are decoded
vmess_server(config, tag, port, alter_id, idx) ==
  IF ~is_ok(tag) THEN tag
  ELSE IF ~is_ok(port) THEN Err("Invalid port in vmess config")
  ELSE IF ~is_ok(alter_id) THEN Err("Invalid alterId in vmess config")
  ELSE LET network == to_lowercase(config.net)
           security == to_lowercase(config.scy)
           is_tls == config.tls = Some(Lit.tls)
           allow_insecure == config.insecure # None
                             /\ is_true_literal(config.insecure[1])
           tls_settings ==
             IF is_tls
             THEN Some(TlsSettings(
                    unwrap_or(config.sni, << >>),
                    unwrap_or(config.fp, Lit.chrome),
                    IF config.alpn = None THEN None
                    ELSE Some(split_alpn(config.alpn[1])),
                    allow_insecure))
             ELSE None
           warp == check_is_warp(tag.val, EmptyMap)
       IN Decoded(Vmess(sanitize_tag(tag.val, Lit.vmess, idx, warp),
                        config.add, port.val, config.id, alter_id.val,
                        security, network,
                        vmess_network_settings(config, network),
                        tls_settings, allow_insecure),
                  warp)

\* the steps that follow the decoding of the payload into parsed
vmess_config(parsed, idx) ==
  IF ~is_ok(parsed) THEN parsed
  ELSE vmess_server(parsed.val,
                    IF parsed.val.ps # << >> THEN unwrap(decode(parsed.val.ps))
                    ELSE Ok(Lit.vmess \o << "-" >> \o fmt_int(idx)),
                    parse_u16(parsed.val.port), parse_u16(parsed.val.aid), idx)

parse_vmess(url, idx) ==
  IF ~starts_with(url, Prefix.vmess) THEN Err("Invalid vmess URL format")
  ELSE LET base64_data == trim_start_matches(url, Prefix.vmess)
       IN IF base64_data = << >> THEN Err("Empty vmess URL")
          ELSE vmess_config(vmess_payload(base64_data), idx)

(***************************************************************************)
(* parse_server_url and parse_servers                                      *)
(***************************************************************************)
parse_server_url(url, idx) ==
  IF starts_with(url, Prefix.ss) THEN parse_shadowsocks(url, idx)
  ELSE IF starts_with(url, Prefix.vless) THEN parse_vless(url, idx)
  ELSE IF starts_with(url, Prefix.vmess) THEN parse_vmess(url, idx)
  ELSE IF starts_with(url, Prefix.trojan) THEN parse_trojan(url, idx)
  ELSE IF starts_with(url, Prefix.hysteria2) THEN parse_hysteria2(url, idx)
  ELSE Err("Unsupported protocol")

\* str::lines: the text between the line feeds; a final line feed ends the
\* last line and starts no new one
str_lines(content) ==
  LET parts == split(content, "\n")
  IN IF parts[Len(parts)] = << >> THEN SubSeq(parts, 1, Len(parts) - 1) ELSE parts

NonBlank(l) == trim(l) # << >>

\* one log::warn! of parse_servers
Warning(line_no, line, error) == [ line_no |-> line_no, line |-> line, error |-> error ]

RECURSIVE parse_loop(_, _, _, _)
RECURSIVE parse_line(_, _, _, _, _)
RECURSIVE parse_match(_, _, _, _, _, _)

\* the match on the result r of parse_server_url for the line at idx
parse_match(lines, idx, servers, warnings, line, r) ==
  IF r.kind = "ok"
  THEN parse_loop(lines, idx + 1, Append(servers, r.val), warnings)
  ELSE IF r.kind = "err"
  THEN parse_loop(lines, idx + 1, servers,
                  Append(warnings, Warning(idx + 1, line, r.err)))
  ELSE [ kind |-> "panic", servers |-> servers, warnings |-> warnings ]

\* the body of the loop, on the trimmed line at idx
parse_line(lines, idx, servers, warnings, line) ==
  IF line = << >> THEN parse_loop(lines, idx + 1, servers, warnings)
  ELSE parse_match(lines, idx, servers, warnings, line, parse_server_url(line, idx))

\* the loop of parse_servers from the (0-based) position idx on
parse_loop(lines, idx, servers, warnings) ==
  IF idx >= Len(lines)
  THEN [ kind |-> "ok", servers |-> servers, warnings |-> warnings ]
  ELSE parse_line(lines, idx, servers, warnings, trim(lines[idx + 1]))

\* mutant: the blank lines are not filtered out before the enumeration
parse_servers_raw_lines(content) ==
  parse_loop(str_lines(content), 0, << >>, << >>)

parse_servers(content) ==
  parse_loop(SelectSeq(str_lines(content), NonBlank), 0, << >>, << >>)

(***************************************************************************)
(* outbound.rs: generate_outbounds.  A JSON object is a function from its  *)
(* keys; a key that the code sets only in some branch is merged in with    *)
(* Field.  Strings taken from the descriptors and the tags are character   *)
(* sequences; the other literals are written as strings.                   *)
(***************************************************************************)
Field(present, key, value) == IF present THEN key :> value ELSE << >>

outbound_shadowsocks(server) ==
  [ tag |-> server.tag,
    protocol |-> "shadowsocks",
    settings |-> [ servers |-> << [ address |-> server.address, port |-> server.port,
                                     method |-> server.method,
                                     password |-> server.password ] >> ] ]

\* the wsSettings / grpcSettings / tcpSettings of a Vless outbound
vless_network_fields(network_settings) ==
  IF network_settings = None THEN << >>
  ELSE LET net == network_settings[1]
       IN IF net.type = "ws"
          THEN "wsSettings" :> [ path |-> net.path, host |-> net.host ]
          ELSE IF net.type = "grpc"
          THEN "grpcSettings" :> [ serviceName |-> net.service_name,
                                   authority |-> net.authority, multiMode |-> FALSE ]
          ELSE "tcpSettings" :> [ header |-> [ type |-> net.header_type ] ]

\* the same of a Vmess or Trojan outbound
\* mutant: tcpSettings written for the header type "none" as well
headers_network_fields_tcp_always(network_settings) ==
  IF network_settings = None THEN << >>
  ELSE LET net == network_settings[1]
       IN IF net.type = "ws"
          THEN "wsSettings" :> [ path |-> net.path, headers |-> [ Host |-> net.host ] ]
          ELSE IF net.type = "grpc"
          THEN "grpcSettings" :> [ serviceName |-> net.service_name,
                                   authority |-> net.authority, multiMode |-> FALSE ]
          ELSE "tcpSettings" :> [ header |-> [ type |-> net.header_type ] ]

headers_network_fields(network_settings) ==
  IF network_settings = None THEN << >>
  ELSE LET net == network_settings[1]
       IN IF net.type = "ws"
          THEN "wsSettings" :> [ path |-> net.path, headers |-> [ Host |-> net.host ] ]
          ELSE IF net.type = "grpc"
          THEN "grpcSettings" :> [ serviceName |-> net.service_name,
                                   authority |-> net.authority, multiMode |-> FALSE ]
          ELSE Field(net.header_type # Lit.none, "tcpSettings",
                     [ header |-> [ type |-> net.header_type ] ])

vless_reality_settings(tls) ==
  [ fingerprint |-> tls.fingerprint, serverName |-> tls.server_name ]
    @@ Field(tls.public_key # None, "publicKey", unwrap_or(tls.public_key, << >>))
    @@ Field(tls.short_id # None, "shortId", unwrap_or(tls.short_id, << >>))
    @@ Field(tls.spider_x # None, "spiderX", unwrap_or(tls.spider_x, << >>))

vless_tls_settings(tls) ==
  [ fingerprint |-> tls.fingerprint, serverName |-> tls.server_name,
    allowInsecure |-> tls.allow_insecure ]
    @@ Field(tls.alpn # None, "alpn", unwrap_or(tls.alpn, << >>))

\* the tlsSettings of a Vmess or Trojan outbound
headers_tls_settings(tls, allow_insecure) ==
  [ serverName |-> tls.server_name,
    allowInsecure |-> (allow_insecure \/ tls.allow_insecure) ]
    @@ Field(tls.fingerprint # << >> /\ tls.fingerprint # Lit.none,
             "fingerprint", tls.fingerprint)
    @@ Field(tls.alpn # None /\ unwrap_or(tls.alpn, << >>) # << >>,
             "alpn", unwrap_or(tls.alpn, << >>))

\* mutant: tlsSettings emitted for "reality" as well
outbound_vless_both_blocks(server) ==
  LET tls == server.tls_settings
      stream_settings ==
        [ network |-> server.network, security |-> server.security ]
          @@ Field(tls # None /\ server.security = Lit.reality,
                   "realitySettings", vless_reality_settings(tls[1]))
          @@ Field(tls # None, "tlsSettings", vless_tls_settings(tls[1]))
          @@ vless_network_fields(server.network_settings)
  IN [ tag |-> server.tag,
       protocol |-> "vless",
       settings |-> [ vnext |-> << [ address |-> server.address, port |-> server.port,
                                      users |-> << [ id |-> server.id, flow |-> server.flow,
                                                     encryption |-> server.encryption,
                                                     level |-> 0 ] >> ] >> ],
       streamSettings |-> stream_settings ]

outbound_vless(server) ==
  LET tls == server.tls_settings
      stream_settings ==
        [ network |-> server.network, security |-> server.security ]
          @@ Field(tls # None /\ server.security = Lit.reality,
                   "realitySettings", vless_reality_settings(tls[1]))
          @@ Field(tls # None /\ server.security # Lit.reality /\ server.security = Lit.tls,
                   "tlsSettings", vless_tls_settings(tls[1]))
          @@ vless_network_fields(server.network_settings)
  IN [ tag |-> server.tag,
       protocol |-> "vless",
       settings |-> [ vnext |-> << [ address |-> server.address, port |-> server.port,
                                      users |-> << [ id |-> server.id, flow |-> server.flow,
                                                     encryption |-> server.encryption,
                                                     level |-> 0 ] >> ] >> ],
       streamSettings |-> stream_settings ]

\* mutant: the stream security follows the presence of the TLS block alone
outbound_vmess_tls_by_block(server) ==
  LET tls == server.tls_settings
      security_type == IF tls # None THEN Lit.tls ELSE Lit.none
      stream_settings ==
        [ network |-> server.network, security |-> security_type ]
          @@ Field(security_type = Lit.tls /\ tls # None, "tlsSettings",
                   headers_tls_settings(tls[1], server.allow_insecure))
          @@ headers_network_fields(server.network_settings)
  IN [ tag |-> server.tag,
       protocol |-> "vmess",
       settings |-> [ vnext |-> << [ address |-> server.address, port |-> server.port,
                                      users |-> << [ id |-> server.id,
                                                     alterId |-> server.alter_id,
                                                     security |-> server.security,
                                                     level |-> 0 ] >> ] >> ],
       streamSettings |-> stream_settings ]

outbound_vmess(server) ==
  LET tls == server.tls_settings
      security_type == IF tls # None /\ tls[1].server_name # << >> THEN Lit.tls ELSE Lit.none
      stream_settings ==
        [ network |-> server.network, security |-> security_type ]
          @@ Field(security_type = Lit.tls /\ tls # None, "tlsSettings",
                   headers_tls_settings(tls[1], server.allow_insecure))
          @@ headers_network_fields(server.network_settings)
  IN [ tag |-> server.tag,
       protocol |-> "vmess",
       settings |-> [ vnext |-> << [ address |-> server.address, port |-> server.port,
                                      users |-> << [ id |-> server.id,
                                                     alterId |-> server.alter_id,
                                                     security |-> server.security,
                                                     level |-> 0 ] >> ] >> ],
       streamSettings |-> stream_settings ]

\* mutant: the stream security derived as in the Vmess branch
outbound_trojan_as_vmess(server) ==
  LET tls == server.tls_settings
      security_type == IF tls # None /\ tls[1].server_name # << >> THEN Lit.tls ELSE Lit.none
      stream_settings ==
        [ network |-> server.network, security |-> security_type ]
          @@ Field(security_type = Lit.tls /\ tls # None, "tlsSettings",
                   headers_tls_settings(tls[1], server.allow_insecure))
          @@ headers_network_fields(server.network_settings)
  IN [ tag |-> server.tag,
       protocol |-> "trojan",
       settings |-> [ servers |-> << [ address |-> server.address, port |-> server.port,
                                       password |-> server.password, level |-> 0 ] >> ],
       streamSettings |-> stream_settings ]

outbound_trojan(server) ==
  LET tls == server.tls_settings
      stream_settings ==
        [ network |-> server.network, security |-> server.security ]
          @@ Field(server.security = Lit.tls /\ tls # None, "tlsSettings",
                   headers_tls_settings(tls[1], server.allow_insecure))
          @@ headers_network_fields(server.network_settings)
  IN [ tag |-> server.tag,
       protocol |-> "trojan",
       settings |-> [ servers |-> << [ address |-> server.address, port |-> server.port,
                                       password |-> server.password, level |-> 0 ] >> ],
       streamSettings |-> stream_settings ]

outbound_hysteria2(server) ==
  [ tag |-> server.tag,
    protocol |-> "hysteria",
    settings |-> [ auth |-> server.password, server |-> server.address,
                   serverPort |-> server.port,
                   tls |-> [ enabled |-> TRUE, serverName |-> server.server_name,
                             insecure |-> server.allow_insecure ] ]
                 @@ Field(server.obfs # None, "obfs",
                          [ type |-> unwrap_or(server.obfs, << >>),
                            password |-> unwrap_or(server.obfs_password, << >>) ]) ]

\* the match of generate_outbounds
outbound_of(server) ==
  IF server.protocol = "shadowsocks" THEN outbound_shadowsocks(server)
  ELSE IF server.protocol = "vless" THEN outbound_vless(server)
  ELSE IF server.protocol = "vmess" THEN outbound_vmess(server)
  ELSE IF server.protocol = "trojan" THEN outbound_trojan(server)
  ELSE outbound_hysteria2(server)

direct_outbound == [ tag |-> Tag.direct, protocol |-> "freedom" ]

block_outbound ==
  [ tag |-> Tag.block, protocol |-> "blackhole",
    settings |-> [ response |-> [ type |-> "http" ] ] ]

\* mutant: the record of a descriptor pushed at the front
outbound_step_push_front(server, outbounds) == << outbound_of(server) >> \o outbounds

\* one iteration of the for loop of generate_outbounds
outbound_step(server, outbounds) == Append(outbounds, outbound_of(server))

\* the for loop of generate_outbounds
RECURSIVE push_outbounds(_, _)
push_outbounds(servers, outbounds) ==
  IF servers = << >> THEN outbounds
  ELSE push_outbounds(Tail(servers), Append(outbounds, outbound_of(Head(servers))))

\* mutant: the two standard outbounds pushed in the other order
standard_outbounds_swapped(outbounds) ==
  Append(Append(outbounds, block_outbound), direct_outbound)

\* the two standard outbounds pushed after the loop
standard_outbounds(outbounds) == Append(Append(outbounds, direct_outbound), block_outbound)

generate_outbounds(servers) ==
  [ outbounds |-> standard_outbounds(push_outbounds(servers, << >>)) ]

(***************************************************************************)
(* routing.rs: generate_routing                                            *)
(***************************************************************************)
\* the three lists after the classification loop
Categories(warp, cloudflare, proxy) ==
  [ warp_servers |-> warp, cloudflare_servers |-> cloudflare, proxy_servers |-> proxy ]

\* mutant: the cloudflare test is not an else branch of the warp test
classify_without_else(server, cats) ==
  LET c1 == IF is_warp(server)
            THEN [ cats EXCEPT !.warp_servers = Append(@, server.tag) ] ELSE cats
  IN IF is_cloudflare(server)
     THEN [ c1 EXCEPT !.cloudflare_servers = Append(@, server.tag) ]
     ELSE IF is_warp(server) THEN c1
     ELSE [ c1 EXCEPT !.proxy_servers = Append(@, server.tag) ]

classify(server, cats) ==
  IF is_warp(server)
  THEN [ cats EXCEPT !.warp_servers = Append(@, server.tag) ]
  ELSE IF is_cloudflare(server)
  THEN [ cats EXCEPT !.cloudflare_servers = Append(@, server.tag) ]
  ELSE [ cats EXCEPT !.proxy_servers = Append(@, server.tag) ]

RECURSIVE classify_all(_, _)
classify_all(servers, cats) ==
  IF servers = << >> THEN cats
  ELSE classify_all(Tail(servers), classify(Head(servers), cats))

balancer(tag, selector) ==
  [ tag |-> tag, selector |-> selector, strategy |-> [ type |-> "leastping" ] ]

\* mutant: the balancers in the order of the classification (warp first)
make_balancers_classification_order(cats) ==
  (IF cats.warp_servers # << >>
   THEN << balancer(Tag.warp_balance, cats.warp_servers) >> ELSE << >>)
  \o (IF cats.cloudflare_servers # << >>
      THEN << balancer(Tag.claude_balance, cats.cloudflare_servers) >> ELSE << >>)
  \o (IF cats.proxy_servers # << >>
      THEN << balancer(Tag.proxy_balance, cats.proxy_servers) >> ELSE << >>)

make_balancers(cats) ==
  (IF cats.cloudflare_servers # << >>
   THEN << balancer(Tag.claude_balance, cats.cloudflare_servers) >> ELSE << >>)
  \o (IF cats.warp_servers # << >>
      THEN << balancer(Tag.warp_balance, cats.warp_servers) >> ELSE << >>)
  \o (IF cats.proxy_servers # << >>
      THEN << balancer(Tag.proxy_balance, cats.proxy_servers) >> ELSE << >>)

InboundTag == << "redirect", "tproxy" >>

fixed_rules ==
  << [ type |-> "field", inboundTag |-> InboundTag, outboundTag |-> Tag.direct,
       port |-> "53" ],
     [ type |-> "field", inboundTag |-> InboundTag, outboundTag |-> Tag.block,
       network |-> "udp", port |-> "135,137,138,139" ],
     [ type |-> "field", inboundTag |-> InboundTag, outboundTag |-> Tag.block,
       domain |-> << "ext:geosite_v2fly.dat:category-ads-all",
                     "domain:pagead2.googlesyndication.com",
                     "domain:googleads.g.doubleclick.net",
                     "domain:ad.adriver.ru",
                     "domain:pink.habralab.ru",
                     "domain:www.google-analytics.com",
                     "domain:ssl.google-analytics.com",
                     "analytics.yandex",
                     "appcenter.ms",
                     "app-measurement.com",
                     "firebase.io",
                     "crashlytics.com" >> ] >>

balancer_rule(tag) ==
  [ type |-> "field", inboundTag |-> InboundTag, balancerTag |-> tag, domain |-> << >> ]

\* mutant: a balancer rule for every category, empty or not
balancer_rules_unconditional(cats) ==
  << balancer_rule(Tag.claude_balance), balancer_rule(Tag.warp_balance),
     balancer_rule(Tag.proxy_balance) >>

balancer_rules(cats) ==
  (IF cats.cloudflare_servers # << >> THEN << balancer_rule(Tag.claude_balance) >> ELSE << >>)
  \o (IF cats.warp_servers # << >> THEN << balancer_rule(Tag.warp_balance) >> ELSE << >>)
  \o (IF cats.proxy_servers # << >> THEN << balancer_rule(Tag.proxy_balance) >> ELSE << >>)

bittorrent_rule ==
  [ type |-> "field", inboundTag |-> InboundTag, outboundTag |-> Tag.direct,
    protocol |-> << "bittorrent" >> ]

local_ip_rule ==
  [ type |-> "field", inboundTag |-> InboundTag, outboundTag |-> Tag.direct,
    ip |-> << "127.0.0.0/8", "10.0.0.0/8", "172.16.0.0/12", "192.168.0.0/16",
              "169.254.0.0/16", "::1/128", "fc00::/7", "fe80::/10" >> ]

\* mutant: the balancers tried in the order they are emitted
default_tag_emission_order(cats) ==
  IF cats.cloudflare_servers # << >> THEN Tag.claude_balance
  ELSE IF cats.warp_servers # << >> THEN Tag.warp_balance
  ELSE IF cats.proxy_servers # << >> THEN Tag.proxy_balance
  ELSE Tag.direct

default_tag(cats) ==
  IF cats.proxy_servers # << >> THEN Tag.proxy_balance
  ELSE IF cats.cloudflare_servers # << >> THEN Tag.claude_balance
  ELSE IF cats.warp_servers # << >> THEN Tag.warp_balance
  ELSE Tag.direct

default_rule(cats) ==
  [ type |-> "field", inboundTag |-> InboundTag, outboundTag |-> default_tag(cats),
    network |-> "tcp,udp" ]

\* generate_routing after the classification loop
routing_document(cats) ==
  [ routing |-> [ domainStrategy |-> "IPIfNonMatch",
                  rules |-> fixed_rules \o balancer_rules(cats)
                            \o << bittorrent_rule, local_ip_rule, default_rule(cats) >>,
                  balancers |-> make_balancers(cats) ] ]

generate_routing(servers) ==
  routing_document(classify_all(servers, Categories(<< >>, << >>, << >>)))

(***************************************************************************)
(* The inputs.                                                             *)
(***************************************************************************)
Uri(scheme, user, host, port, query, fragment) ==
  scheme \o user \o << "@" >> \o host \o << ":" >> \o port
    \o (IF query = None THEN << >> ELSE << "?" >> \o query[1])
    \o (IF fragment = None THEN << >> ELSE << "#" >> \o fragment[1])

Schemes == { Prefix.ss, Prefix.vless, Prefix.trojan, Prefix.hysteria2 }

\* "YTpi" is the base64 of "a:b"
Users == { << "Y", "T", "p", "i" >> }

Hosts == { << "h" >>,
           << "C", "d", "n" >>,
           << "1", "0", "4", ".", "1" >> }

Ports == { << "1" >> }

Queries == { None } \cup { Some(q) : q \in
  { << "a", "=", "b" >>,
    << "t", "y", "p", "e", "=", "w", "s", "&", "p", "a", "t", "h", "=", "W", "a", "r", "p" >>,
    << "s", "n", "i", "=", "%", "F", "F" >>,
    << "s", "e", "c", "u", "r", "i", "t", "y", "=", "t", "l", "s", "&", "h", "o", "s", "t", "=", "w", "a", "r", "p" >> } }

\* "%C4%B0" is the UTF-8 of U+0130, "%FF" is no UTF-8
Fragments == { None } \cup { Some(f) : f \in
  { << "t" >>,
    << "w", "a", "r", "p" >>,
    << "x", "w", "a", "r", "p" >>,
    << "x", "w", "a", ".", "r", "p" >>,
    << "a", " ", "B" >>,
    << "." >>,
    << "%", "F", "F" >>,
    << "%", "C", "4", "%", "B", "0" >>,
    << "d", "i", "r", "e", "c", "t" >>,
    << >> } }

UriLines ==
  { Uri(scheme, user, host, port, query, fragment) :
      scheme \in Schemes, user \in Users, host \in Hosts, port \in Ports,
      query \in Queries, fragment \in Fragments }

VmessLines == { Prefix.vmess \o << b >> : b \in VmessBlobs }

\* lines the grammar of Uri does not produce
OddLines ==
  { << "j", "u", "n", "k" >>,
    << "s", "s", ":", "/", "/" >>,
    << "s", "s", ":", "/", "/", "Y", "T", "p", "i" >>,
    << "s", "s", ":", "/", "/", "Y", "T", "p", "i", "@", "h" >>,
    << "s", "s", ":", "/", "/", "Y", "T", "p", "i", "@", "h", ":", "x" >>,
    << "s", "s", ":", "/", "/", "Y", "T", "p", "i", "@", "h", ":", "+", "1" >>,
    << "s", "s", ":", "/", "/", "Y", "T", "p", "i", "@", "h", ":", "7", "0", "0", "0", "0", "#", "%", "F", "F" >>,
    << "s", "s", ":", "/", "/", "s", "s", ":", "/", "/", "Y", "T", "p", "i", "@", "h", ":", "1" >>,
    << "s", "s", ":", "/", "/", "!", "@", "h", ":", "1", "#", "%", "F", "F" >>,
    << "s", "s", ":", "/", "/", "Y", "Q", "@", "h", ":", "1" >>,
    << "s", "s", ":", "/", "/", "Y", "T", "p", "i", "@", ":", "1" >>,
    << "s", "s", ":", "/", "/", "Y", "T", "o", "+", "P", "g", "=", "=", "@", "h", ":", "1" >>,
    << "s", "s", ":", "/", "/", "Y", "T", "o", "+", "P", "g", "@", "h", ":", "1" >>,
    << "s", "s", ":", "/", "/", "Y", "T", "o", "-", "P", "g", "=", "=", "@", "h", ":", "1" >>,
    << "s", "s", ":", "/", "/", "Y", "T", "o", "-", "P", "g", "@", "h", ":", "1" >>,
    << "s", "s", ":", "/", "/", "Y", "T", "o", "+", "P", "j", "8", "=", "@", "h", ":", "1" >>,
    << "s", "s", ":", "/", "/", "Y", "T", "o", "+", "P", "j", "8", "@", "h", ":", "1" >>,
    << "s", "s", ":", "/", "/", "Y", "T", "o", "-", "P", "j", "8", "=", "@", "h", ":", "1" >>,
    << "s", "s", ":", "/", "/", "Y", "T", "o", "-", "P", "j", "8", "@", "h", ":", "1" >>,
    << "s", "s", ":", "/", "/", "Y", "T", "o", "/", "@", "h", ":", "1" >>,
    << "s", "s", ":", "/", "/", "Y", "T", "o", "_", "@", "h", ":", "1" >>,
    << "s", "s", ":", "/", "/", "Y", "T", "p", "i", "O", "m", "M", "=", "@", "h", ":", "1" >>,
    << "s", "s", ":", "/", "/", "Y", "T", "o", "6", "@", "h", ":", "1" >>,
    << "s", "s", ":", "/", "/", "Y", "W", "J", "j", "@", "h", ":", "1" >>,
    << "s", "s", ":", "/", "/", "Y", "T", "o", "=", "@", "h", ":", "1" >>,
    << "v", "l", "e", "s", "s", ":", "/", "/", "u", "@", "h", ":", "7", "0", "0", "0", "0", "?", "a", "=", "b", "#", "%", "F", "F" >>,
    << "v", "l", "e", "s", "s", ":", "/", "/", "u", "@", "h", ":", "U+0663", "?", "a", "=", "b" >>,
    << "v", "l", "e", "s", "s", ":", "/", "/", "@", "h", ":", "1", "?", "a", "=", "b" >>,
    << "v", "l", "e", "s", "s", ":", "/", "/", "u", "@", "h", ":", "1", "?", "t", "y", "p", "e", "=", "g", "r", "p", "c" >>,
    << "v", "l", "e", "s", "s", ":", "/", "/", "u", "@", "h", ":", "1", "?", "t", "y", "p", "e", "=", "g", "r", "p", "c", "&", "s", "e", "r", "v", "i", "c", "e", "N", "a", "m", "e", "=", "s", "&", "a", "u", "t", "h", "o", "r", "i", "t", "y", "=", "a" >>,
    << "v", "l", "e", "s", "s", ":", "/", "/", "u", "@", "h", ":", "1", "?", "t", "y", "p", "e", "=", "w", "s" >>,
    << "v", "l", "e", "s", "s", ":", "/", "/", "u", "@", "h", ":", "1", "?", "t", "y", "p", "e", "=", "t", "c", "p", "&", "h", "e", "a", "d", "e", "r", "T", "y", "p", "e", "=", "h", "t", "t", "p" >>,
    << "v", "l", "e", "s", "s", ":", "/", "/", "u", "@", "h", ":", "1", "?", "t", "y", "p", "e", "=", "W", "S", "&", "p", "a", "t", "h", "=", "p" >>,
    << "v", "l", "e", "s", "s", ":", "/", "/", "u", "@", "h", ":", "1", "?", "t", "y", "p", "e", "=", "k", "c", "p", "&", "h", "e", "a", "d", "e", "r", "T", "y", "p", "e", "=", "h", "t", "t", "p" >>,
    << "t", "r", "o", "j", "a", "n", ":", "/", "/", "p", "@", "h", ":", "1", "?", "t", "y", "p", "e", "=", "w", "s", "&", "h", "o", "s", "t", "=", "w" >>,
    << "t", "r", "o", "j", "a", "n", ":", "/", "/", "p", "@", "h", ":", "1", "?", "t", "y", "p", "e", "=", "g", "r", "p", "c" >>,
    << "t", "r", "o", "j", "a", "n", ":", "/", "/", "p", "@", "h", ":", "1", "?", "h", "e", "a", "d", "e", "r", "T", "y", "p", "e", "=", "h", "t", "t", "p", "&", "s", "n", "i", "=", "s" >>,
    << "t", "r", "o", "j", "a", "n", ":", "/", "/", "p", "@", "h", ":", "1", "?", "t", "y", "p", "e", "=", "q", "u", "i", "c", "&", "p", "a", "t", "h", "=", "p" >>,
    << "t", "r", "o", "j", "a", "n", ":", "/", "/", "p", "@", "h", ":", "1", "?", "s", "n", "i", "=", "s" >>,
    << "v", "l", "e", "s", "s", ":", "/", "/", "u", "@", "h", ":", "1", "?", "s", "e", "c", "u", "r", "i", "t", "y", "=", "t", "l", "s", "&", "p", "b", "k", "=", "k", "&", "s", "i", "d", "=", "s", "&", "s", "p", "x", "=", "x" >>,
    << "v", "l", "e", "s", "s", ":", "/", "/", "u", "@", "h", ":", "1", "?", "s", "e", "c", "u", "r", "i", "t", "y", "=", "r", "e", "a", "l", "i", "t", "y", "&", "p", "b", "k", "=", "k", "&", "s", "i", "d", "=", "s", "&", "s", "p", "x", "=", "x" >>,
    << "v", "l", "e", "s", "s", ":", "/", "/", "u", "@", "h", ":", "1", "?", "s", "e", "c", "u", "r", "i", "t", "y", "=", "r", "e", "a", "l", "i", "t", "y", "&", "p", "a", "t", "h", "=", "p" >>,
    << "t", "r", "o", "j", "a", "n", ":", "/", "/", "p", "@", "h", ":", "1", "?", "p", "b", "k", "=", "k", "&", "s", "i", "d", "=", "s", "&", "s", "p", "x", "=", "x" >>,
    << "v", "l", "e", "s", "s", ":", "/", "/", "u", "@", "h", ":", "1", "?", "s", "e", "c", "u", "r", "i", "t", "y", "=", "t", "l", "s", "&", "i", "n", "s", "e", "c", "u", "r", "e", "=", "0" >>,
    << "v", "l", "e", "s", "s", ":", "/", "/", "u", "@", "h", ":", "1", "?", "s", "e", "c", "u", "r", "i", "t", "y", "=", "t", "l", "s", "&", "i", "n", "s", "e", "c", "u", "r", "e", "=", "1" >>,
    << "v", "l", "e", "s", "s", ":", "/", "/", "u", "@", "h", ":", "1", "?", "s", "e", "c", "u", "r", "i", "t", "y", "=", "t", "l", "s", "&", "a", "l", "l", "o", "w", "I", "n", "s", "e", "c", "u", "r", "e", "=", "0" >>,
    << "v", "l", "e", "s", "s", ":", "/", "/", "u", "@", "h", ":", "1", "?", "s", "e", "c", "u", "r", "i", "t", "y", "=", "t", "l", "s", "&", "a", "l", "l", "o", "w", "I", "n", "s", "e", "c", "u", "r", "e", "=", "t", "r", "u", "e" >>,
    << "v", "l", "e", "s", "s", ":", "/", "/", "u", "@", "h", ":", "1", "?", "s", "e", "c", "u", "r", "i", "t", "y", "=", "r", "e", "a", "l", "i", "t", "y", "&", "i", "n", "s", "e", "c", "u", "r", "e", "=", "0" >>,
    << "v", "l", "e", "s", "s", ":", "/", "/", "u", "@", "h", ":", "1", "?", "s", "e", "c", "u", "r", "i", "t", "y", "=", "r", "e", "a", "l", "i", "t", "y" >>,
    << "v", "l", "e", "s", "s", ":", "/", "/", "u", "@", "h", ":", "1", "?", "s", "e", "c", "u", "r", "i", "t", "y", "=", "n", "o", "n", "e", "&", "s", "n", "i", "=", "s" >>,
    << "v", "l", "e", "s", "s", ":", "/", "/", "u", "@", "h", ":", "1", "?", "s", "e", "c", "u", "r", "i", "t", "y", "=", "T", "L", "S" >>,
    << "t", "r", "o", "j", "a", "n", ":", "/", "/", "p", "@", "h", ":", "1", "?", "i", "n", "s", "e", "c", "u", "r", "e", "=", "1" >>,
    << "t", "r", "o", "j", "a", "n", ":", "/", "/", "p", "@", "h", ":", "1", "?", "a", "l", "l", "o", "w", "I", "n", "s", "e", "c", "u", "r", "e", "=", "t", "r", "u", "e" >>,
    << "t", "r", "o", "j", "a", "n", ":", "/", "/", "p", "@", "h", ":", "1", "?", "a", "l", "l", "o", "w", "I", "n", "s", "e", "c", "u", "r", "e", "=", "0" >>,
    << "t", "r", "o", "j", "a", "n", ":", "/", "/", "p", "@", "h", ":", "1", "?", "s", "e", "c", "u", "r", "i", "t", "y", "=", "n", "o", "n", "e", "&", "s", "n", "i", "=", "s" >>,
    << "t", "r", "o", "j", "a", "n", ":", "/", "/", "p", "@", "h", ":", "1", "?", "s", "e", "c", "u", "r", "i", "t", "y", "=", "r", "e", "a", "l", "i", "t", "y", "&", "p", "b", "k", "=", "k" >>,
    << "v", "l", "e", "s", "s", ":", "/", "/", "u", "@", "h", ":", "1", "?", "#", "t" >>,
    << "v", "l", "e", "s", "s", ":", "/", "/", "u", "@", "h", "#", "x", ":", "2", "?", "a", "=", "b" >>,
    << "t", "r", "o", "j", "a", "n", ":", "/", "/", "%", "F", "F", "@", "h", ":", "1", "?", "a", "=", "b" >>,
    << "t", "r", "o", "j", "a", "n", ":", "/", "/", "u", "@", "h", ":", "1", "?" >>,
    << "h", "y", "s", "t", "e", "r", "i", "a", "2", ":", "/", "/", "%", "F", "F", "@", "h", ":", "1" >>,
    << "h", "y", "s", "t", "e", "r", "i", "a", "2", ":", "/", "/", "p", "@", "h", ":", "1", "x" >>,
    << "h", "y", "s", "t", "e", "r", "i", "a", "2", ":", "/", "/", "p", "@", "h", ":", "1", "#", "s", "n", "i", "=", "s" >>,
    << "h", "y", "s", "t", "e", "r", "i", "a", "2", ":", "/", "/", "p", "@", "h", ":", "1", "?", "s", "n", "i", "=", "s" >>,
    << "v", "m", "e", "s", "s", ":", "/", "/" >>,
    << "v", "m", "e", "s", "s", ":", "/", "/", "Y", "T", "p", "i" >> }

\* the trimmed, non-empty lines given to parse_server_url
AllLines == UriLines \cup VmessLines \cup OddLines

\* the lines of the input texts given to parse_servers
TextLines ==
  { << " " >>,
    << "j", "u", "n", "k" >>,
    << " ", "s", "s", ":", "/", "/", "Y", "T", "p", "i", "@", "h", ":", "1", "#", "t", " " >>,
    << "s", "s", ":", "/", "/", "Y", "T", "p", "i", "@", "C", "d", "n", ":", "1" >>,
    << "s", "s", ":", "/", "/", "Y", "T", "p", "i", "@", "h", ":", "1", "#" >>,
    << "s", "s", ":", "/", "/", "Y", "T", "p", "i", "@", "h", ":", "1", "#", "x", "w", "a", "r", "p" >>,
    << "s", "s", ":", "/", "/", "Y", "T", "p", "i", "@", "h", ":", "1", "#", "%", "F", "F" >>,
    << "s", "s", ":", "/", "/", "Y", "T", "p", "i", "@", "h", ":", "1", "#", "%", "C", "4", "%", "B", "0" >>,
    << "s", "s", ":", "/", "/", "Y", "Q", "@", "h", ":", "1", "#", "t" >>,
    << "v", "l", "e", "s", "s", ":", "/", "/", "u", "@", "C", "d", "n", ":", "1", "?", "a", "=", "b", "#", "t" >>,
    << "v", "l", "e", "s", "s", ":", "/", "/", "u", "@", "h", ":", "1", "?", "t", "y", "p", "e", "=", "w", "s", "&", "p", "a", "t", "h", "=", "W", "a", "r", "p", "#", "t" >>,
    << "v", "l", "e", "s", "s", ":", "/", "/", "u", "@", "h", ":", "1", "#", "t" >>,
    << "v", "l", "e", "s", "s", ":", "/", "/", "u", "@", "1", "0", "4", ".", "1", ":", "1", "?", "a", "=", "b", "#", "w", "a", "r", "p" >>,
    << "v", "l", "e", "s", "s", ":", "/", "/", "u", "@", "h", ":", "1", "?", "a", "=", "b", "#", "x", "w", "a", ".", "r", "p" >>,
    << "t", "r", "o", "j", "a", "n", ":", "/", "/", "p", "@", "h", ":", "1", "?", "a", "=", "b", "#", "a", " ", "B" >>,
    << "t", "r", "o", "j", "a", "n", ":", "/", "/", "p", "@", "h", ":", "1", "#", "t" >>,
    << "h", "y", "s", "t", "e", "r", "i", "a", "2", ":", "/", "/", "p", "@", "h", ":", "1" >>,
    << "h", "y", "s", "t", "e", "r", "i", "a", "2", ":", "/", "/", "p", "@", "C", "d", "n", ":", "1", "?", "a", "=", "b", "#", "d", "i", "r", "e", "c", "t" >>,
    << "v", "m", "e", "s", "s", ":", "/", "/", "J1" >>,
    << "v", "m", "e", "s", "s", ":", "/", "/", "J6" >>,
    << "v", "m", "e", "s", "s", ":", "/", "/", "J2" >>,
    << "v", "m", "e", "s", "s", ":", "/", "/", "J5" >> }

RECURSIVE SeqsUpTo(_, _)
SeqsUpTo(S, n) ==
  IF n = 0 THEN { << >> }
  ELSE LET shorter == SeqsUpTo(S, n - 1)
       IN shorter \cup { Append(q, x) : q \in shorter, x \in S }

\* the input texts: up to MaxLines of the lines of TextLines, and every line
\* of AllLines as a text of one line
Texts == { Join(ls, << "\n" >>) : ls \in SeqsUpTo(TextLines, MaxLines) } \cup AllLines

\* the raw tags given to sanitize_tag: up to MaxTagParts pieces
TagPieces ==
  { Lit.warp, << "W" >>, << "a" >>, << " " >>, << "-" >>, << "." >>,
    << "U+0130" >>, << "U+1F30D" >> }

RawTags == { Join(ps, << >>) : ps \in SeqsUpTo(TagPieces, MaxTagParts) }

ProtocolNames == { Lit.ss, Lit.vless, Lit.vmess, Lit.trojan, Lit.hysteria2 }

\* the is_warp argument of the call sites of sanitize_tag: literally false in
\* parse_shadowsocks, parse_trojan and parse_hysteria2, check_is_warp in
\* parse_vless (tag or query) and in parse_vmess (tag alone)
CallSiteWarp(tag, protocol) ==
  IF protocol = Lit.vless
  THEN IF contains(to_lowercase(tag), Lit.warp) THEN { TRUE } ELSE BOOLEAN
  ELSE IF protocol = Lit.vmess THEN { contains(to_lowercase(tag), Lit.warp) }
  ELSE { FALSE }

(***************************************************************************)
(* The state machine.  main: parse_servers, generate_outbounds,            *)
(* generate_routing.  "call" holds a single call of a function of          *)
(* parser.rs, for the properties of that function.                         *)
(***************************************************************************)
VARIABLES content, pc, servers, warnings, outbounds, routing, call

vars == << content, pc, servers, warnings, outbounds, routing, call >>

NoCall == [ fn |-> "none" ]

Init ==
  /\ content \in Texts
  /\ pc = "start"
  /\ servers = << >>
  /\ warnings = << >>
  /\ outbounds = None
  /\ routing = None
  /\ call = NoCall

\* main.rs:40; a panic of a decoder ends the process
ParseServers ==
  /\ pc = "start"
  /\ \E r \in { parse_servers(content) } :
       /\ pc' = IF r.kind = "ok" THEN "parsed" ELSE "panicked"
       /\ servers' = IF r.kind = "ok" THEN r.servers ELSE << >>
       /\ warnings' = r.warnings
  /\ UNCHANGED << content, outbounds, routing, call >>

\* main.rs:44
GenerateOutbounds ==
  /\ pc = "parsed"
  /\ outbounds' = Some(generate_outbounds(servers))
  /\ pc' = "outbounds"
  /\ UNCHANGED << content, servers, warnings, routing, call >>

\* main.rs:45
GenerateRouting ==
  /\ pc = "outbounds"
  /\ routing' = Some(generate_routing(servers))
  /\ pc' = "done"
  /\ UNCHANGED << content, servers, warnings, outbounds, call >>

Next == ParseServers \/ GenerateOutbounds \/ GenerateRouting

Spec == Init /\ [][Next]_vars

(***************************************************************************)
(* One call of parse_server_url, on any line and index.                    *)
(***************************************************************************)
InitDecode ==
  /\ content = << >>
  /\ pc = "idle"
  /\ servers = << >>
  /\ warnings = << >>
  /\ outbounds = None
  /\ routing = None
  /\ \E url \in AllLines, idx \in 0..MaxIdx :
       call = [ fn |-> "parse_server_url", url |-> url, idx |-> idx,
                state |-> "called", result |-> None ]

Decode ==
  /\ call.fn = "parse_server_url"
  /\ call.state = "called"
  /\ call' = [ call EXCEPT !.state = "returned",
                           !.result = Some(parse_server_url(call.url, call.idx)) ]
  /\ UNCHANGED << content, pc, servers, warnings, outbounds, routing >>

NextDecode == Decode

SpecDecode == InitDecode /\ [][NextDecode]_vars

(***************************************************************************)
(* sanitize_tag, applied to a raw tag and then to its own result.          *)
(***************************************************************************)
InitSanitize ==
  /\ content = << >>
  /\ pc = "idle"
  /\ servers = << >>
  /\ warnings = << >>
  /\ outbounds = None
  /\ routing = None
  /\ \E tag \in RawTags, protocol \in ProtocolNames, idx \in 0..MaxIdx :
       \E is_warp_arg \in CallSiteWarp(tag, protocol) :
         call = [ fn |-> "sanitize_tag", tag |-> tag, protocol |-> protocol, idx |-> idx,
                  is_warp |-> is_warp_arg, state |-> "called", once |-> None,
                  twice |-> None ]

Sanitize ==
  /\ call.fn = "sanitize_tag"
  /\ call.state = "called"
  /\ call' = [ call EXCEPT
                 !.state = "once",
                 !.once = Some(sanitize_tag(call.tag, call.protocol, call.idx,
                                            call.is_warp)) ]
  /\ UNCHANGED << content, pc, servers, warnings, outbounds, routing >>

SanitizeAgain ==
  /\ call.fn = "sanitize_tag"
  /\ call.state = "once"
  /\ call' = [ call EXCEPT
                 !.state = "twice",
                 !.twice = Some(sanitize_tag(call.once[1], call.protocol, call.idx,
                                             call.is_warp)) ]
  /\ UNCHANGED << content, pc, servers, warnings, outbounds, routing >>

NextSanitize == Sanitize \/ SanitizeAgain

SpecSanitize == InitSanitize /\ [][NextSanitize]_vars

(***************************************************************************)
(* The two synthesizers of main, generate_outbounds and generate_routing,  *)
(* run on the same &[ServerConfig] one loop iteration at a time, in any    *)
(* interleaving.  "call" holds the locals of the two functions: the        *)
(* position of each for loop, the outbounds vector and the three lists.    *)
(***************************************************************************)
\* Vless descriptors as a caller of the library builds them (the tests of
\* outbound.rs do): any security-kind with or without a TLS block
VlessDescriptors ==
  { Vless(<< "t" >>, << "h" >>, 443, << "u" >>, Lit.none, << >>, Lit.tcp, security,
          tls_settings, network_settings) :
      security \in { Lit.none, Lit.tls, Lit.reality },
      tls_settings \in { None, Some(parse_tls_settings(EmptyMap, Lit.reality)) },
      network_settings \in { None, Some(Tcp(Lit.none)) } }

\* the descriptor sequences parse_servers returns, and the descriptors of
\* VlessDescriptors, each alone
DescriptorSeqs ==
  { r.servers : r \in { x \in { parse_servers(t) : t \in Texts } : x.kind = "ok" } }
    \cup { << d >> : d \in VlessDescriptors }

InitSynth ==
  /\ content = << >>
  /\ pc = "parsed"
  /\ servers \in DescriptorSeqs
  /\ warnings = << >>
  /\ outbounds = None
  /\ routing = None
  /\ call = [ fn |-> "synthesize", given |-> servers,
              o_pos |-> 0, o_outbounds |-> << >>,
              r_pos |-> 0, r_cats |-> Categories(<< >>, << >>, << >>) ]

\* outbound.rs:9-374, one iteration
OutboundsStep ==
  /\ call.fn = "synthesize"
  /\ call.o_pos < Len(servers)
  /\ call' = [ call EXCEPT
                 !.o_pos = @ + 1,
                 !.o_outbounds = outbound_step(servers[call.o_pos + 1], @) ]
  /\ UNCHANGED << content, pc, servers, warnings, outbounds, routing >>

\* outbound.rs:376-394, after the loop
OutboundsReturn ==
  /\ call.fn = "synthesize"
  /\ call.o_pos = Len(servers)
  /\ outbounds = None
  /\ outbounds' = Some([ outbounds |-> standard_outbounds(call.o_outbounds) ])
  /\ pc' = IF routing # None THEN "done" ELSE pc
  /\ UNCHANGED << content, servers, warnings, routing, call >>

\* routing.rs:11-20, one iteration
RoutingStep ==
  /\ call.fn = "synthesize"
  /\ call.r_pos < Len(servers)
  /\ call' = [ call EXCEPT
                 !.r_pos = @ + 1,
                 !.r_cats = classify(servers[call.r_pos + 1], @) ]
  /\ UNCHANGED << content, pc, servers, warnings, outbounds, routing >>

\* routing.rs:22-173, after the loop
RoutingReturn ==
  /\ call.fn = "synthesize"
  /\ call.r_pos = Len(servers)
  /\ routing = None
  /\ routing' = Some(routing_document(call.r_cats))
  /\ pc' = IF outbounds # None THEN "done" ELSE pc
  /\ UNCHANGED << content, servers, warnings, outbounds, call >>

NextSynth == OutboundsStep \/ OutboundsReturn \/ RoutingStep \/ RoutingReturn

SpecSynth == InitSynth /\ [][NextSynth]_vars

(***************************************************************************)
(* Properties.                                                             *)
(***************************************************************************)
Returned == pc \in { "parsed", "outbounds", "done" }

\* the trimmed non-blank lines of a text, in order
TrimmedLines(text) ==
  LET ls == SelectSeq(str_lines(text), NonBlank)
  IN [ i \in 1..Len(ls) |-> trim(ls[i]) ]

\* the result of the decoder on the i-th non-blank line
LineResult(text, i) == parse_server_url(TrimmedLines(text)[i], i - 1)

\* the descriptors of the lines that decode, in input order
DecodableSeq(text) ==
  LET n == Len(TrimmedLines(text))
      decodes(i) == LineResult(text, i).kind = "ok"
      positions == SelectSeq([ i \in 1..n |-> i ], decodes)
  IN [ j \in 1..Len(positions) |-> LineResult(text, positions[j]).val ]

Count(q, x) == Cardinality({ i \in 1..Len(q) : q[i] = x })

Range(q) == { q[i] : i \in 1..Len(q) }

\* C1 (as claimed): batch decode never fails and never aborts, for any input
\* text: it returns exactly the descriptors of the lines that decode, in
\* input order.  A decoder that panics on a line aborts the whole batch.
C1_BatchDecodeNeverAborts ==
  /\ pc # "panicked"
  /\ Returned => servers = DecodableSeq(content)

\* C2 (as claimed): every descriptor a decoder produces satisfies
\* is_warp(d) => d.tag starts with "warp".
C2_WarpInvariant ==
  (call.fn = "parse_server_url" /\ call.state = "returned" /\ is_ok(call.result[1]))
    => (is_warp(call.result[1].val) => starts_with(call.result[1].val.tag, Lit.warp))

\* C2 (amended): every descriptor whose decoder's own warp determination is
\* true (check_is_warp in parse_vless and parse_vmess; the other three
\* decoders pass false) has a tag that starts with "warp".
C2_DecoderWarpPrefix ==
  (call.fn = "parse_server_url" /\ call.state = "returned" /\ is_ok(call.result[1]))
    => (call.result[1].warp => starts_with(call.result[1].val.tag, Lit.warp))

\* C2 witness: a Vless line whose query, not its tag, makes it a warp server
\* has been decoded, and its tag got the prefix.
C2_Witness ==
  /\ call.fn = "parse_server_url"
  /\ call.state = "returned"
  /\ is_ok(call.result[1])
  /\ call.result[1].warp
  /\ call.result[1].val.protocol = "vless"
  /\ call.result[1].val.tag = Lit.warp_dash \o << "t" >>

\* the selector entries of all the balancers of a routing document
RECURSIVE SelectorEntries(_)
SelectorEntries(balancers) ==
  IF balancers = << >> THEN << >>
  ELSE Head(balancers).selector \o SelectorEntries(Tail(balancers))

ServerTags == [ i \in 1..Len(servers) |-> servers[i].tag ]

\* C3 (as claimed): the union of all balancer selectors is exactly the set
\* of descriptor tags, and no tag is in more than one balancer's selector.
C3_BalancerPartition ==
  routing # None =>
    LET b == routing[1].routing.balancers
    IN /\ Range(SelectorEntries(b)) = Range(ServerTags)
       /\ \A i, j \in 1..Len(b) :
            i # j => Range(b[i].selector) \cap Range(b[j].selector) = { }

\* C3 (amended): the union of all balancer selectors is exactly the set of
\* descriptor tags, and a tag is listed, over all selectors, once for each
\* descriptor that carries it; so a tag carried by one descriptor only is
\* in exactly one selector, once.
C3_BalancerCoverage ==
  routing # None =>
    LET entries == SelectorEntries(routing[1].routing.balancers)
    IN /\ Range(entries) = Range(ServerTags)
       /\ \A t \in Range(entries) \cup Range(ServerTags) :
            Count(entries, t) = Count(ServerTags, t)

\* C3 witness: a routing document with two balancers has been generated
\* from descriptors of which one is both a warp and a cloudflare server.
C3_Witness ==
  /\ routing # None
  /\ Len(routing[1].routing.balancers) >= 2
  /\ \E i \in 1..Len(servers) : is_warp(servers[i]) /\ is_cloudflare(servers[i])

\* C4: for n descriptors generate_outbounds returns n + 2 records; record i
\* carries the tag of descriptor i, record n + 1 is direct/freedom and
\* record n + 2 is block/blackhole.
C4_OutboundRecords ==
  outbounds # None =>
    LET o == outbounds[1].outbounds
        n == Len(servers)
    IN /\ Len(o) = n + 2
       /\ \A i \in 1..n : o[i].tag = servers[i].tag
       /\ o[n + 1] = [ tag |-> Tag.direct, protocol |-> "freedom" ]
       /\ o[n + 2].tag = Tag.block
       /\ o[n + 2].protocol = "blackhole"

\* C4 witness: the outbounds of two descriptors with different tags exist.
C4_Witness ==
  /\ outbounds # None
  /\ Len(servers) = 2
  /\ servers[1].tag # servers[2].tag
  /\ servers[1].protocol # servers[2].protocol

\* the three categories, read off the descriptors
C5_InWarp(s) == contains(to_lowercase(s.tag), Lit.warp)
C5_InCloudflare(s) == ~C5_InWarp(s) /\ is_cloudflare(s)
C5_InProxy(s) == ~C5_InWarp(s) /\ ~is_cloudflare(s)

C5_Target ==
  IF \E i \in 1..Len(servers) : C5_InProxy(servers[i]) THEN Tag.proxy_balance
  ELSE IF \E i \in 1..Len(servers) : C5_InCloudflare(servers[i]) THEN Tag.claude_balance
  ELSE IF \E i \in 1..Len(servers) : C5_InWarp(servers[i]) THEN Tag.warp_balance
  ELSE Tag.direct

IsDefaultRule(r) == "network" \in DOMAIN r /\ r.network = "tcp,udp"

NoDecodableLine(text) ==
  \A i \in 1..Len(TrimmedLines(text)) : LineResult(text, i).kind # "ok"

\* C6 (as claimed): a run on a text with no parseable line succeeds end to
\* end: no descriptor, the 2 terminal outbounds, no balancer and a default
\* rule to "direct".
C6_EmptyRunSucceeds ==
  NoDecodableLine(content) =>
    /\ pc # "panicked"
    /\ Returned => servers = << >>
    /\ outbounds # None => Len(outbounds[1].outbounds) = 2
    /\ routing # None =>
         LET r == routing[1].routing
         IN r.balancers = << >> /\ r.rules[Len(r.rules)].outboundTag = Tag.direct

\* C7: a vless:// or trojan:// line with no '?' is a decode failure, with or
\* without a #tag.
C7_QueryMandatory ==
  ( /\ call.fn = "parse_server_url"
    /\ call.state = "returned"
    /\ starts_with(call.url, Prefix.vless) \/ starts_with(call.url, Prefix.trojan)
    /\ ~contains_char(call.url, "?") )
    => call.result[1].kind = "err"

\* C7 witness: a trojan line with user, host, port and #tag but no query has
\* been given to the decoder.
C7_Witness ==
  /\ call.fn = "parse_server_url"
  /\ call.state = "returned"
  /\ call.url = Uri(Prefix.trojan, << "Y", "T", "p", "i" >>, << "h" >>, << "1" >>, None,
                    Some(<< "t" >>))

\* C8 (as claimed): sanitize_tag is idempotent.
C8_SanitizeIdempotent ==
  (call.fn = "sanitize_tag" /\ call.state = "twice") => call.twice = call.once

\* char::is_uppercase, of the characters of the model
is_uppercase(c) == c \in AsciiUpper \cup {"U+0130"}

TagSeparators == { "-", "_", "@", "|" }

\* C9 (as claimed): every descriptor of batch decode has a non-empty tag of
\* letters, digits and '-', '_', '@', '|' only, with no space and no
\* upper-case letter.
C9_TagsSanitized ==
  Returned =>
    \A i \in 1..Len(servers) :
      /\ servers[i].tag # << >>
      /\ \A k \in 1..Len(servers[i].tag) :
           LET c == servers[i].tag[k]
           IN /\ is_alphanumeric(c) \/ c \in TagSeparators
              /\ c # " "
              /\ ~is_uppercase(c)

\* the classification of C10, written from the claim
C10_TagHasWarp(s) == contains(to_lowercase(s.tag), Lit.warp)

C10_AddressIsCloudflare(s) ==
  /\ s.protocol # "shadowsocks"
  /\ LET a == to_lowercase(s.address)
     IN \/ (Len(a) >= 4 /\ SubSeq(a, 1, 4) = Lit.ip104)
        \/ contains(a, Lit.cloudflare)
        \/ contains(a, Lit.cdn)

C10_Warp(s) == C10_TagHasWarp(s)
C10_Cloudflare(s) == ~C10_TagHasWarp(s) /\ C10_AddressIsCloudflare(s)
C10_Proxy(s) == ~C10_TagHasWarp(s) /\ ~C10_AddressIsCloudflare(s)

TagsOf(q) == [ i \in 1..Len(q) |-> q[i].tag ]

\* the selector of the balancer of that tag, empty when there is none
SelectorOf(balancers, tag) ==
  IF \E i \in 1..Len(balancers) : balancers[i].tag = tag
  THEN (CHOOSE b \in Range(balancers) : b.tag = tag).selector
  ELSE << >>

\* C10: each descriptor is in exactly one category: warp if its tag contains
\* "warp"; else cloudflare if it is not Shadowsocks and its address starts
\* with "104." or contains "cloudflare" or "cdn"; else proxy.
C10_Classification ==
  routing # None =>
    LET b == routing[1].routing.balancers
    IN /\ SelectorOf(b, Tag.warp_balance) = TagsOf(SelectSeq(servers, C10_Warp))
       /\ SelectorOf(b, Tag.claude_balance) = TagsOf(SelectSeq(servers, C10_Cloudflare))
       /\ SelectorOf(b, Tag.proxy_balance) = TagsOf(SelectSeq(servers, C10_Proxy))

\* C10 witness: a routing document exists for a Shadowsocks descriptor with
\* a cloudflare address and a descriptor that is warp and cloudflare at once.
C10_Witness ==
  /\ routing # None
  /\ \E i \in 1..Len(servers) :
       /\ servers[i].protocol = "shadowsocks"
       /\ contains(to_lowercase(servers[i].address), Lit.cdn)
  /\ \E i \in 1..Len(servers) :
       C10_TagHasWarp(servers[i]) /\ C10_AddressIsCloudflare(servers[i])

\* the balancers the claim of C11 expects: one per category, in the order
\* cloudflare, warp, proxy, those with no tag left out
C11_NonEmptySelector(b) == b.selector # << >>

C11_Expected ==
  SelectSeq(
    << balancer(Tag.claude_balance, TagsOf(SelectSeq(servers, C10_Cloudflare))),
       balancer(Tag.warp_balance, TagsOf(SelectSeq(servers, C10_Warp))),
       balancer(Tag.proxy_balance, TagsOf(SelectSeq(servers, C10_Proxy))) >>,
    C11_NonEmptySelector)

\* C11: generate_routing emits one balancer for each non-empty category and
\* none for an empty one, in the order claude-balance, warp-balance,
\* proxy-balance; each has a non-empty selector listing its category's tags
\* in input order, and strategy type "leastping".
C11_BalancerList ==
  routing # None =>
    LET b == routing[1].routing.balancers
    IN /\ b = C11_Expected
       /\ \A i \in 1..Len(b) :
            /\ b[i].selector # << >>
            /\ b[i].strategy = [ type |-> "leastping" ]
            /\ DOMAIN b[i] = { "tag", "selector", "strategy" }

\* C11 witness: a routing document exists for a warp descriptor followed by
\* a cloudflare descriptor: the balancers are claude-balance, then
\* warp-balance, and there is no proxy-balance.
C11_Witness ==
  /\ routing # None
  /\ Len(servers) = 2
  /\ C10_Warp(servers[1])
  /\ C10_Cloudflare(servers[2])
  /\ Len(routing[1].routing.balancers) = 2
  /\ routing[1].routing.balancers[1].tag = Tag.claude_balance

\* the number of non-empty categories of the descriptors
C12_NonEmptyCategories ==
  (IF \E i \in 1..Len(servers) : C10_Cloudflare(servers[i]) THEN 1 ELSE 0)
  + (IF \E i \in 1..Len(servers) : C10_Warp(servers[i]) THEN 1 ELSE 0)
  + (IF \E i \in 1..Len(servers) : C10_Proxy(servers[i]) THEN 1 ELSE 0)

\* the balancer tags of the non-empty categories, in the order cloudflare,
\* warp, proxy
C12_BalancerTags ==
  (IF \E i \in 1..Len(servers) : C10_Cloudflare(servers[i])
   THEN << Tag.claude_balance >> ELSE << >>)
  \o (IF \E i \in 1..Len(servers) : C10_Warp(servers[i])
      THEN << Tag.warp_balance >> ELSE << >>)
  \o (IF \E i \in 1..Len(servers) : C10_Proxy(servers[i])
      THEN << Tag.proxy_balance >> ELSE << >>)

\* C12: the rule list is: DNS port 53 to direct, block UDP 135,137,138,139,
\* block the ad-domain list, one balancer rule per non-empty category in
\* the order cloudflare, warp, proxy, BitTorrent to direct, the private and
\* loopback ranges to direct, the default rule; its length is 6 plus the
\* number of non-empty categories.
C12_RuleOrder ==
  routing # None =>
    LET rules == routing[1].routing.rules
        k == C12_NonEmptyCategories
    IN /\ Len(rules) = 6 + k
       /\ rules[1].port = "53" /\ rules[1].outboundTag = Tag.direct
       /\ "network" \notin DOMAIN rules[1]
       /\ rules[2].network = "udp" /\ rules[2].port = "135,137,138,139"
       /\ rules[2].outboundTag = Tag.block
       /\ "domain" \in DOMAIN rules[3] /\ Len(rules[3].domain) > 0
       /\ rules[3].outboundTag = Tag.block
       /\ [ i \in 1..k |-> rules[3 + i].balancerTag ] = C12_BalancerTags
       /\ \A i \in 1..k : "outboundTag" \notin DOMAIN rules[3 + i]
       /\ rules[4 + k].protocol = << "bittorrent" >>
       /\ rules[4 + k].outboundTag = Tag.direct
       /\ "ip" \in DOMAIN rules[5 + k] /\ Len(rules[5 + k].ip) = 8
       /\ rules[5 + k].outboundTag = Tag.direct
       /\ IsDefaultRule(rules[6 + k])

\* C12 witness: a routing document exists for a proxy descriptor followed
\* by a cloudflare descriptor: two balancer rules, eight rules in all.
C12_Witness ==
  /\ routing # None
  /\ Len(servers) = 2
  /\ C10_Proxy(servers[1])
  /\ C10_Cloudflare(servers[2])
  /\ Len(routing[1].routing.rules) = 8

\* the positions, among the non-blank lines, of the lines that decode
C13_Positions(text) ==
  LET decodes(i) == LineResult(text, i).kind = "ok"
  IN SelectSeq([ i \in 1..Len(TrimmedLines(text)) |-> i ], decodes)

\* a line with no '#', or with nothing after its first '#'
C13_NoTag(line) == find(line, "#") = 0 \/ After(line, find(line, "#")) = << >>

\* C13: in batch decode a Shadowsocks line with no #tag, or an empty one,
\* gets the tag "ss-{i}", i the zero-based position of the line among the
\* non-blank lines: blank lines do not count, lines that fail to decode do.
C13_DefaultTagIndex ==
  Returned =>
    /\ Len(servers) = Len(C13_Positions(content))
    /\ \A j \in 1..Len(servers) :
         LET p == C13_Positions(content)[j]
             line == TrimmedLines(content)[p]
         IN (starts_with(line, Prefix.ss) /\ C13_NoTag(line))
              => servers[j].tag = << "s", "s", "-" >> \o fmt_int(p - 1)

\* C13 witness: batch decode has returned for a text of two non-blank
\* lines, the first one undecodable, the second a Shadowsocks line with an
\* empty #tag, which got the tag "ss-1".
C13_Witness ==
  /\ Returned
  /\ Len(TrimmedLines(content)) = 2
  /\ LineResult(content, 1).kind = "err"
  /\ C13_NoTag(TrimmedLines(content)[2])
  /\ contains_char(TrimmedLines(content)[2], "#")
  /\ Len(servers) = 1
  /\ servers[1].tag = << "s", "s", "-", "1" >>

\* C14: the two synthesizers only read the descriptor sequence: whatever
\* the interleaving of their steps, the descriptors stay as they were given
\* and each document is the one its synthesizer produces when it runs alone
\* on them (as in main, where generate_outbounds runs before
\* generate_routing).
C14_SynthesizersIndependent ==
  call.fn = "synthesize" =>
    /\ servers = call.given
    /\ outbounds # None => outbounds[1] = generate_outbounds(call.given)
    /\ routing # None => routing[1] = generate_routing(call.given)

\* C14 witness: on two descriptors of different categories, generate_routing
\* has returned while generate_outbounds is in the middle of its loop.
C14_Witness ==
  /\ call.fn = "synthesize"
  /\ Len(servers) = 2
  /\ C10_Warp(servers[1]) /\ ~C10_Warp(servers[2])
  /\ routing # None
  /\ outbounds = None
  /\ call.o_pos = 1

\* the number of non-blank lines before line n of the text
C15_IndexOf(text, n) ==
  Cardinality({ m \in 1..(n - 1) : NonBlank(str_lines(text)[m]) })

\* the 1-based line numbers, in the text, of the dropped lines: the
\* non-blank lines that do not decode
C15_DroppedLines(text) ==
  LET dropped(n) ==
        /\ NonBlank(str_lines(text)[n])
        /\ parse_server_url(trim(str_lines(text)[n]), C15_IndexOf(text, n)).kind # "ok"
  IN SelectSeq([ n \in 1..Len(str_lines(text)) |-> n ], dropped)

\* C15 (as claimed): the log receives exactly one warning for every dropped
\* line, carrying the 1-based line number of that line in the input text
\* and the line's text; decoded lines and blank lines produce no warning.
C15_WarningLineNumbers ==
  Returned =>
    /\ Len(warnings) = Len(C15_DroppedLines(content))
    /\ \A j \in 1..Len(warnings) :
         /\ warnings[j].line_no = C15_DroppedLines(content)[j]
         /\ warnings[j].line = trim(str_lines(content)[C15_DroppedLines(content)[j]])

\* the sextets of the base64 encoding of the bytes b
RECURSIVE C16_Sextets(_)
C16_Sextets(b) ==
  IF Len(b) = 0 THEN << >>
  ELSE IF Len(b) = 1 THEN << b[1] \div 4, (b[1] % 4) * 16 >>
  ELSE IF Len(b) = 2
  THEN << b[1] \div 4, (b[1] % 4) * 16 + (b[2] \div 16), (b[2] % 16) * 4 >>
  ELSE << b[1] \div 4, (b[1] % 4) * 16 + (b[2] \div 16),
          (b[2] % 16) * 4 + (b[3] \div 64), b[3] % 64 >>
       \o C16_Sextets(SubSeq(b, 4, Len(b)))

\* the base64 encoding of an ASCII text in an alphabet, with or without the
\* '=' padding
C16_Encode(text, alphabet, pad) ==
  LET v == C16_Sextets([ i \in 1..Len(text) |-> CodeOf[text[i]] ])
  IN [ i \in 1..Len(v) |-> alphabet[v[i] + 1] ]
     \o (IF pad /\ Len(text) % 3 = 1 THEN << "=", "=" >>
         ELSE IF pad /\ Len(text) % 3 = 2 THEN << "=" >>
         ELSE << >>)

\* passwords whose credentials "a:password" need no, one and two '=' and
\* use the symbols 62 and 63 of the alphabets
C16_Passwords ==
  { << "b" >>, << "?" >>, << ">", ">" >>, << ">", ">", "?" >> }

\* C16 (as claimed): the Shadowsocks decoder accepts a credential part that
\* is the base64 of method:password in the standard or in the URL-safe
\* alphabet, with its '=' padding or without it.
C16_AcceptsBothAlphabets ==
  \A pw \in C16_Passwords, alphabet \in { STANDARD_ALPHABET, URL_SAFE_ALPHABET },
     pad \in BOOLEAN :
    ( /\ call.fn = "parse_server_url"
      /\ call.state = "returned"
      /\ call.url = Prefix.ss \o C16_Encode(<< "a", ":" >> \o pw, alphabet, pad)
                      \o << "@", "h", ":", "1" >> )
      => /\ is_ok(call.result[1])
         /\ call.result[1].val.method = << "a" >>
         /\ call.result[1].val.password = pw

\* decoded credential payloads with no, one, two and three ':'
C17_Payloads ==
  { << "a", "b", "c" >>, << "a", ":", "b" >>, << "a", ":" >>, << "a", ":", ":" >>,
    << "a", ":", "b", ":", "c" >>, << "a", ":", ">", ">" >> }

\* a returned call of the decoder on a Shadowsocks line whose credential
\* part is the padded standard base64 of the payload
C17_Called(payload) ==
  /\ call.fn = "parse_server_url"
  /\ call.state = "returned"
  /\ call.url = Prefix.ss \o C16_Encode(payload, STANDARD_ALPHABET, TRUE)
                  \o << "@", "h", ":", "1" >>

C17_Colons(payload) == Cardinality({ i \in 1..Len(payload) : payload[i] = ":" })

\* C17 (as claimed): the decoded credential payload is accepted only when
\* it contains exactly one ':'; a payload with no ':' and a payload with
\* two or more ':' are both rejected.
C17_ExactlyOneColon ==
  \A payload \in C17_Payloads :
    C17_Called(payload) => (is_ok(call.result[1]) <=> C17_Colons(payload) = 1)

\* C17 (amended): the decoded credential payload is accepted exactly when
\* it contains at least one ':'; the method is the text before the first
\* ':' and the password all the text after it, further ':' included.
C17_SplitsAtFirstColon ==
  \A payload \in C17_Payloads :
    C17_Called(payload) =>
      IF C17_Colons(payload) = 0 THEN call.result[1].kind = "err"
      ELSE /\ is_ok(call.result[1])
           /\ call.result[1].val.method = Before(payload, find(payload, ":"))
           /\ call.result[1].val.password = After(payload, find(payload, ":"))

\* C17 witness: the decoder has returned a descriptor with the password
\* "b:c" for the credentials "a:b:c".
C17_Witness ==
  /\ C17_Called(<< "a", ":", "b", ":", "c" >>)
  /\ is_ok(call.result[1])
  /\ call.result[1].val.password = << "b", ":", "c" >>

\* a returned call of the decoder on a hysteria2:// line
C18_Called ==
  /\ call.fn = "parse_server_url"
  /\ call.state = "returned"
  /\ starts_with(call.url, Prefix.hysteria2)

\* C18 (as claimed): the descriptor of a hysteria2:// line with no '?' has
\* an empty server-name, allow-insecure false and no obfuscation kind or
\* password, whatever its #tag contains.
C18_NoQueryDefaults ==
  (C18_Called /\ ~contains_char(call.url, "?") /\ is_ok(call.result[1]))
    => /\ call.result[1].val.server_name = << >>
       /\ call.result[1].val.allow_insecure = FALSE
       /\ call.result[1].val.obfs = None
       /\ call.result[1].val.obfs_password = None

\* the query of a line: the text after its first '?', up to the '#'
C19_QueryOf(url) ==
  LET rest == After(url, find(url, "?"))
  IN IF find(rest, "#") = 0 THEN rest ELSE Before(rest, find(rest, "#"))

\* the value of a query parameter of a line that has decoded, if present
C19_Param(url, key) == map_get(parse_query(C19_QueryOf(url)).val, key)

C19_IsTrue(v) == v = << "1" >> \/ v = << "t", "r", "u", "e" >>

\* a returned call of the decoder that gave a descriptor with a TLS block
C19_HasTlsBlock(protocol) ==
  /\ call.fn = "parse_server_url"
  /\ call.state = "returned"
  /\ is_ok(call.result[1])
  /\ call.result[1].val.protocol = protocol
  /\ call.result[1].val.tls_settings # None

C19_Flag == call.result[1].val.tls_settings[1].allow_insecure

\* C19 (as claimed): the allow-insecure flag of the TLS block.  Vless: the
\* value of the allowInsecure or insecure parameter, true exactly for "1"
\* or "true", and true when neither is present.  Trojan and Vmess: false
\* when the parameter is absent.
C19_AllowInsecure ==
  /\ C19_HasTlsBlock("vless") =>
       LET ai == C19_Param(call.url, Key.allowInsecure)
           ins == C19_Param(call.url, Key.insecure)
       IN /\ (ai = None /\ ins = None) => C19_Flag = TRUE
          /\ (ai # None /\ ins = None) => C19_Flag = C19_IsTrue(ai[1])
          /\ (ai = None /\ ins # None) => C19_Flag = C19_IsTrue(ins[1])
  /\ C19_HasTlsBlock("trojan") =>
       ( ( /\ C19_Param(call.url, Key.allowInsecure) = None
           /\ C19_Param(call.url, Key.insecure) = None ) => C19_Flag = FALSE )
  /\ C19_HasTlsBlock("vmess") =>
       ( "insecure" \notin DOMAIN VmessJson[call.url[Len(call.url)]]
           => C19_Flag = FALSE )

\* a returned call of the decoder that gave a descriptor of the protocol
C20_Decoded(protocol) ==
  /\ call.fn = "parse_server_url"
  /\ call.state = "returned"
  /\ is_ok(call.result[1])
  /\ call.result[1].val.protocol = protocol

\* the security parameter of the line, or the default of the decoder
C20_SecurityKind(default) ==
  IF C19_Param(call.url, Key.security) = None THEN default
  ELSE C19_Param(call.url, Key.security)[1]

\* C20: a decoded descriptor has a TLS block exactly when its security
\* calls for one: Vless iff security-kind is "tls" or "reality" (default
\* "none"); Trojan iff security-kind is "tls", the default when the
\* parameter is absent; Vmess iff the tls key of the payload is "tls".
C20_TlsBlockPresence ==
  /\ C20_Decoded("vless") =>
       /\ call.result[1].val.security = C20_SecurityKind(<< "n", "o", "n", "e" >>)
       /\ call.result[1].val.tls_settings # None
            <=> call.result[1].val.security
                  \in { << "t", "l", "s" >>, << "r", "e", "a", "l", "i", "t", "y" >> }
  /\ C20_Decoded("trojan") =>
       /\ call.result[1].val.security = C20_SecurityKind(<< "t", "l", "s" >>)
       /\ call.result[1].val.tls_settings # None
            <=> call.result[1].val.security = << "t", "l", "s" >>
  /\ C20_Decoded("vmess") =>
       ( call.result[1].val.tls_settings # None
           <=> /\ "tls" \in DOMAIN VmessJson[call.url[Len(call.url)]]
               /\ VmessJson[call.url[Len(call.url)]].tls.v = << "t", "l", "s" >> )

\* C20 witness: a Vless line with security=reality has been decoded, and
\* its descriptor has a TLS block.
C20_Witness ==
  /\ C20_Decoded("vless")
  /\ C19_Param(call.url, Key.security) = Some(<< "r", "e", "a", "l", "i", "t", "y" >>)
  /\ call.result[1].val.tls_settings # None

\* the three Reality-only fields of a TLS block are absent
C21_NoRealityFields(tls) ==
  tls.public_key = None /\ tls.short_id = None /\ tls.spider_x = None

\* C21: in every decoded descriptor the Reality-only fields of the TLS
\* block (public-key, short-id, spider-path) are absent unless the
\* security-kind is "reality"; for Vmess and Trojan they are always absent,
\* even when the query or the payload supplies pbk, sid or spx.
C21_RealityFieldsOnlyForReality ==
  \A protocol \in { "vless", "vmess", "trojan" } :
    C19_HasTlsBlock(protocol) =>
      ( ( \/ protocol # "vless"
          \/ call.result[1].val.security # << "r", "e", "a", "l", "i", "t", "y" >> )
          => C21_NoRealityFields(call.result[1].val.tls_settings[1]) )

\* C21 witness: a Trojan line whose query supplies pbk, sid and spx has
\* been decoded into a descriptor with a TLS block.
C21_Witness ==
  /\ C19_HasTlsBlock("trojan")
  /\ C19_Param(call.url, Key.pbk) # None
  /\ C19_Param(call.url, Key.sid) # None
  /\ C19_Param(call.url, Key.spx) # None

\* what the line supplies for a transport parameter: the query parameter
\* for Vless and Trojan, the key of the payload for Vmess
C22_Supplied(protocol, query_key, payload_key) ==
  IF protocol = "vmess"
  THEN json_opt(VmessJson[call.url[Len(call.url)]], payload_key)
  ELSE C19_Param(call.url, query_key)

C22_OrDefault(supplied, default) == IF supplied = None THEN default ELSE supplied[1]

\* C22: in every decoded Vless, Vmess or Trojan descriptor the transport
\* settings follow from the transport-kind alone: "ws" gives WebSocket
\* (path default "/", host default ""), "grpc" gives Grpc (service-name and
\* authority default ""), "tcp" gives Tcp (header-type default "none"), any
\* other value gives none; the variant agrees with the transport-kind.
C22_TransportByKind ==
  \A protocol \in { "vless", "vmess", "trojan" } :
    C20_Decoded(protocol) =>
      LET d == call.result[1].val
          ns == d.network_settings
      IN IF d.network = << "w", "s" >>
         THEN /\ ns # None /\ ns[1].type = "ws"
              /\ ns[1].path = C22_OrDefault(C22_Supplied(protocol, Key.path, "path"),
                                            << "/" >>)
              /\ ns[1].host = C22_OrDefault(C22_Supplied(protocol, Key.host, "host"),
                                            << >>)
         ELSE IF d.network = << "g", "r", "p", "c" >>
         THEN /\ ns # None /\ ns[1].type = "grpc"
              /\ ns[1].service_name
                   = C22_OrDefault(C22_Supplied(protocol, Key.serviceName, "path"), << >>)
              /\ ns[1].authority
                   = C22_OrDefault(C22_Supplied(protocol, Key.authority, "host"), << >>)
         ELSE IF d.network = << "t", "c", "p" >>
         THEN /\ ns # None /\ ns[1].type = "tcp"
              /\ ns[1].header_type
                   = C22_OrDefault(C22_Supplied(protocol, Key.headerType, "type"),
                                   << "n", "o", "n", "e" >>)
         ELSE ns = None

\* C22 witness: a Vmess payload with net "WS" and no path has been decoded
\* into a descriptor of transport-kind "ws" with WebSocket settings.
C22_Witness ==
  /\ C20_Decoded("vmess")
  /\ VmessJson[call.url[Len(call.url)]].net.v = << "W", "S" >>
  /\ call.result[1].val.network_settings # None
  /\ call.result[1].val.network_settings[1].type = "ws"

\* the descriptor has a TLS block with a non-empty server-name
C23_NamedTlsBlock(server) ==
  server.tls_settings # None /\ server.tls_settings[1].server_name # << >>

\* the streamSettings of the outbound record of descriptor i
C23_Stream(i) == outbounds[1].outbounds[i].streamSettings

\* C23: for a Vmess descriptor the outbound's streamSettings.security is
\* "tls" iff a TLS block is present and its server-name is non-empty, else
\* "none", whatever the descriptor's own security (cipher) field; and
\* tlsSettings is emitted exactly when that value is "tls".
C23_VmessStreamSecurity ==
  outbounds # None =>
    \A i \in 1..Len(servers) :
      servers[i].protocol = "vmess" =>
        /\ C23_Stream(i).security
             = (IF C23_NamedTlsBlock(servers[i]) THEN << "t", "l", "s" >>
                ELSE << "n", "o", "n", "e" >>)
        /\ "tlsSettings" \in DOMAIN C23_Stream(i)
             <=> C23_Stream(i).security = << "t", "l", "s" >>

\* C23 witness: the outbounds exist for a Vmess descriptor that has a TLS
\* block with an empty server-name, and its stream security is "none".
C23_Witness ==
  /\ outbounds # None
  /\ \E i \in 1..Len(servers) :
       /\ servers[i].protocol = "vmess"
       /\ servers[i].tls_settings # None
       /\ servers[i].tls_settings[1].server_name = << >>
       /\ C23_Stream(i).security = << "n", "o", "n", "e" >>

\* C24 (as claimed): for a Trojan descriptor streamSettings.security is
\* "tls" and tlsSettings is emitted iff a TLS block is present and its
\* server-name is non-empty; otherwise security is "none" and there is no
\* tlsSettings.
C24_TrojanAsVmess ==
  outbounds # None =>
    \A i \in 1..Len(servers) :
      servers[i].protocol = "trojan" =>
        IF C23_NamedTlsBlock(servers[i])
        THEN /\ C23_Stream(i).security = << "t", "l", "s" >>
             /\ "tlsSettings" \in DOMAIN C23_Stream(i)
        ELSE /\ C23_Stream(i).security = << "n", "o", "n", "e" >>
             /\ "tlsSettings" \notin DOMAIN C23_Stream(i)

\* C24 (amended): for a Trojan descriptor streamSettings.security is the
\* descriptor's security-kind as it stands, and tlsSettings is emitted iff
\* that security-kind is "tls" and a TLS block is present, whatever the
\* server-name of the block.
C24_TrojanStreamSecurity ==
  outbounds # None =>
    \A i \in 1..Len(servers) :
      servers[i].protocol = "trojan" =>
        /\ C23_Stream(i).security = servers[i].security
        /\ "tlsSettings" \in DOMAIN C23_Stream(i)
             <=> ( /\ servers[i].security = << "t", "l", "s" >>
                   /\ servers[i].tls_settings # None )

\* C24 witness: the outbounds exist for a Trojan descriptor that has a TLS
\* block with an empty server-name; its record has tlsSettings.
C24_Witness ==
  /\ outbounds # None
  /\ \E i \in 1..Len(servers) :
       /\ servers[i].protocol = "trojan"
       /\ servers[i].tls_settings # None
       /\ servers[i].tls_settings[1].server_name = << >>
       /\ "tlsSettings" \in DOMAIN C23_Stream(i)

C26_TransportBlocks(i) ==
  DOMAIN C23_Stream(i) \cap { "wsSettings", "grpcSettings", "tcpSettings" }

\* C26: each outbound's streamSettings carries at most one of wsSettings,
\* grpcSettings, tcpSettings.  A Vless descriptor with Tcp transport settings
\* always gets a tcpSettings block with its header-type; a Vmess or Trojan
\* descriptor with Tcp transport settings gets one iff its header-type
\* differs from "none".
C26_TransportBlock ==
  outbounds # None =>
    /\ \A i \in 1..Len(outbounds[1].outbounds) :
         "streamSettings" \in DOMAIN outbounds[1].outbounds[i]
           => Cardinality(C26_TransportBlocks(i)) <= 1
    /\ \A i \in 1..Len(servers) :
         ( /\ servers[i].protocol \in { "vless", "vmess", "trojan" }
           /\ servers[i].network_settings # << >>
           /\ servers[i].network_settings[1].type = "tcp" )
         => /\ "tcpSettings" \in DOMAIN C23_Stream(i)
                 <=> ( \/ servers[i].protocol = "vless"
                       \/ servers[i].network_settings[1].header_type
                            # << "n", "o", "n", "e" >> )
            /\ "tcpSettings" \in DOMAIN C23_Stream(i)
                 => C23_Stream(i).tcpSettings.header.type
                      = servers[i].network_settings[1].header_type

\* C26 witness: generate_outbounds has returned for a Trojan descriptor with
\* Tcp transport settings of header-type "http"; its record has a
\* tcpSettings block and no other transport block.
C26_Witness ==
  /\ outbounds # None
  /\ \E i \in 1..Len(servers) :
       /\ servers[i].protocol = "trojan"
       /\ servers[i].network_settings # << >>
       /\ servers[i].network_settings[1].type = "tcp"
       /\ servers[i].network_settings[1].header_type = << "h", "t", "t", "p" >>
       /\ C26_TransportBlocks(i) = { "tcpSettings" }

\* the call has returned for a vmess:// line whose payload is a JSON record
\* with no ps key, the six other required keys being strings and port and
\* aid being numbers
C27_Called ==
  /\ call.fn = "parse_server_url"
  /\ call.state = "returned"
  /\ Len(call.url) = 9
  /\ SubSeq(call.url, 1, 8) = << "v", "m", "e", "s", "s", ":", "/", "/" >>
  /\ call.url[9] \in DOMAIN VmessJson
  /\ "ps" \notin DOMAIN VmessJson[call.url[9]]
  /\ \A k \in { "add", "port", "id", "aid", "scy", "net" } :
       /\ k \in DOMAIN VmessJson[call.url[9]]
       /\ VmessJson[call.url[9]][k].t = "str"
  /\ \A k \in { "port", "aid" } :
       /\ VmessJson[call.url[9]][k].v # << >>
       /\ \A n \in 1..Len(VmessJson[call.url[9]][k].v) :
            VmessJson[call.url[9]][k].v[n]
              \in { "0", "1", "2", "3", "4", "5", "6", "7", "8", "9" }

\* C27: a Vmess payload that has no ps key, and whose other required keys
\* are valid, decodes successfully and gets the default tag "vmess-{index}".
C27_MissingPsDefaultTag ==
  C27_Called
    => /\ is_ok(call.result[1])
       /\ call.result[1].val.tag = << "v", "m", "e", "s", "s", "-" >> \o fmt_int(call.idx)

\* C28: every outboundTag used by a rule of the routing document, the
\* trailing default rule included, is the tag of a record of the outbound
\* document generated from the same descriptors, and every balancerTag used
\* by a rule is the tag of a balancer of the routing document.
C28_ReferentialIntegrity ==
  (outbounds # None /\ routing # None) =>
    \A k \in 1..Len(routing[1].routing.rules) :
      /\ "outboundTag" \in DOMAIN routing[1].routing.rules[k]
           => \E i \in 1..Len(outbounds[1].outbounds) :
                outbounds[1].outbounds[i].tag = routing[1].routing.rules[k].outboundTag
      /\ "balancerTag" \in DOMAIN routing[1].routing.rules[k]
           => \E b \in 1..Len(routing[1].routing.balancers) :
                routing[1].routing.balancers[b].tag = routing[1].routing.rules[k].balancerTag

\* the call has returned for a hysteria2:// line that has no '#'
C29_Called ==
  /\ call.fn = "parse_server_url"
  /\ call.state = "returned"
  /\ starts_with(call.url, Prefix.hysteria2)
  /\ \A n \in 1..Len(call.url) : call.url[n] # "#"

\* C29: a hysteria2:// line with no #tag fragment that decodes gets the
\* default tag "hysteria2-{index}", with a '?' query component and without
\* one; the query text never becomes the tag.
C29_DefaultTagWithoutFragment ==
  (C29_Called /\ is_ok(call.result[1]))
    => call.result[1].val.tag
         = << "h", "y", "s", "t", "e", "r", "i", "a", "2", "-" >> \o fmt_int(call.idx)

\* C30: in the outbound document produced from a decoded input no record
\* made of a descriptor has the tag "direct" or "block", so each of the two
\* tags names exactly one record, the terminal one.
C30_ReservedTagsUnique ==
  (Returned /\ outbounds # None) =>
    \A t \in { << "d", "i", "r", "e", "c", "t" >>, << "b", "l", "o", "c", "k" >> } :
      /\ \A i \in 1..Len(servers) : outbounds[1].outbounds[i].tag # t
      /\ Cardinality({ i \in 1..Len(outbounds[1].outbounds) :
                         outbounds[1].outbounds[i].tag = t }) = 1

====
